---- MODULE Spec2Model ----
(***************************************************************************)
(* Rally campaign tracker: on-chain aggregation, campaign discovery and    *)
(* the tracker's run over its persisted state (campaign-tracker.mjs, the   *)
(* JSON tracker and the campaigns API route), and the gas monitor.         *)
(*                                                                         *)
(* Strings the code slices or case-folds (addresses, topics, log data) are *)
(* sequences of one-character strings.  Wei amounts are naturals; the      *)
(* code's successEth = Number(successWei) / 1e18 is the same amount in     *)
(* another unit and is not modelled separately.  The clock counts tenths   *)
(* of a day.                                                               *)
(*                                                                         *)
(* SpecStats runs the aggregation alone, SpecDisc discovery alone, Spec    *)
(* the tracker over two campaigns with every outcome of the fetches,       *)
(* SpecArr the tracker over one campaign at every distance between runs,   *)
(* and SpecIo the tracker over a fee campaign and a free campaign with a   *)
(* state file that can be damaged.  SpecRows runs the campaign loops of    *)
(* the four programs over fetched figures, SpecSubs the figures derived    *)
(* from submissions, and SpecPages getAllPages.  SpecAddr is discovery    *)
(* over creation logs without a usable topic, SpecRate the tracker at     *)
(* campaign ages around a tenth of a day, SpecLists the fee and free      *)
(* lists, SpecRace two tracker processes on one state file, and SpecMon   *)
(* the gas monitor.                                                        *)
(***************************************************************************)
EXTENDS Integers, Sequences, FiniteSets, TLC

VARIABLES
    campAddr,   \* getCampaignOnChainStats: the campAddr argument
    txs,        \* getCampaignOnChainStats: the fetched transaction list
    oc,         \* getCampaignOnChainStats: the returned stats, NoStats before the call
    facLogs,    \* discovery: factory -> the logs getAllPages returns for it (log ids)
    disc,       \* discovery: the last run (which program, fetches that succeeded, result)
    now,        \* the clock, Date.now(), in units of a tenth of a day
    ledger,     \* campaign -> the transactions the chain holds for it
    stateFile,  \* campaign-state.json
    report,     \* what the last run of main computed and printed
    ranAt,      \* the time of the last run of main
    runs,       \* how many times main has run
    ticks,      \* how many times the clock has been advanced
    platform,   \* the platform's listing: free campaign -> its submissions
    reportedNew, \* campaign -> the success value the runs so far have printed as new
    campList,   \* the campaign loop: the campaigns with what was fetched for each
    summary,    \* the campaign loop: the rows and totals a program reports
    subs,       \* the submissions fetched for one campaign
    scored,     \* the figures derived from subs
    pager,      \* getAllPages: the program, the pages fetched, the cursor
    lists,      \* the fee and the free campaigns a program lists, and from what
    proc,       \* two tracker processes on one state file: what each holds in memory
    mon         \* the gas monitor: the wallets' transactions, its state file, its runs

statsVars == <<campAddr, txs, oc>>

discVars == <<facLogs, disc>>

runVars == <<now, ledger, stateFile, report, ranAt, runs, ticks, platform, reportedNew>>

metricVars == <<campList, summary, subs, scored, pager>>

extraVars == <<lists, proc, mon>>

vars == <<campAddr, txs, oc, facLogs, disc, now, ledger, stateFile, report, ranAt, runs, ticks,
          platform, reportedNew, campList, summary, subs, scored, pager, lists, proc, mon>>

\* JavaScript's null / undefined / absent field, one per type of the value
\* it stands in for: a status or other atom, a string, a number.
Null == "null"

NoStr == <<"null">>

NoNum == -1

----------------------------------------------------------------------------
\* Strings

\* String.prototype.toLowerCase on one character (hex digits are the only
\* letters the inputs carry).
LowerChar(c) ==
    CASE c = "A" -> "a" [] c = "B" -> "b" [] c = "C" -> "c"
      [] c = "D" -> "d" [] c = "E" -> "e" [] c = "F" -> "f"
      [] c = "X" -> "x"
      [] OTHER -> c

toLowerCase(s) == [i \in 1..Len(s) |-> LowerChar(s[i])]

\* x ?? '' for a string-valued field.
OrEmpty(x) == IF x = NoStr THEN <<>> ELSE x

\* Sum of f over the finite set S.
RECURSIVE SumOver(_, _)
SumOver(S, f) ==
    IF S = {} THEN 0
    ELSE LET x == CHOOSE y \in S : TRUE
         IN f[x] + SumOver(S \ {x}, f)

----------------------------------------------------------------------------
\* getCampaignOnChainStats

\* const value = BigInt(tx.value ?? '0')
TxValue(tx) == IF tx.value = NoNum THEN 0 ELSE tx.value

\* Drops the case folding of the destination.
TxSkipped_NoLower(tx, addr) ==
    TxValue(tx) = 0 \/ OrEmpty(tx.to) # addr

\* if (value === 0n || toAddr !== campAddr.toLowerCase()) continue;
TxSkipped(tx, addr) ==
    TxValue(tx) = 0 \/ toLowerCase(OrEmpty(tx.to)) # toLowerCase(addr)

\* The accumulators before the loop.
StatsInit ==
    [participants |-> {}, successWei |-> 0, failedWei |-> 0,
     successTxs |-> 0, failedTxs |-> 0, firstTs |-> NoNum]

\* Adds the sender of every counted transaction, reverted ones included.
StatsStep_AllSenders(acc, tx) ==
    IF tx.status = "error"
    THEN [acc EXCEPT !.failedTxs = @ + 1, !.failedWei = @ + TxValue(tx),
                     !.participants = @ \cup {toLowerCase(OrEmpty(tx.from))}]
    ELSE [acc EXCEPT
            !.participants = @ \cup {toLowerCase(OrEmpty(tx.from))},
            !.successWei = @ + TxValue(tx),
            !.successTxs = @ + 1,
            !.firstTs = IF tx.timestamp # NoNum /\ tx.timestamp # 0
                           /\ (@ = NoNum \/ tx.timestamp < @)
                        THEN tx.timestamp ELSE @]

\* One iteration of the loop body for a transaction that is not skipped.
StatsStep(acc, tx) ==
    IF tx.status = "error"
    THEN [acc EXCEPT !.failedTxs = @ + 1, !.failedWei = @ + TxValue(tx)]
    ELSE [acc EXCEPT
            !.participants = @ \cup {toLowerCase(OrEmpty(tx.from))},
            !.successWei = @ + TxValue(tx),
            !.successTxs = @ + 1,
            !.firstTs = IF tx.timestamp # NoNum /\ tx.timestamp # 0
                           /\ (@ = NoNum \/ tx.timestamp < @)
                        THEN tx.timestamp ELSE @]

\* for (const tx of txs) { ... }
RECURSIVE StatsLoop(_, _, _)
StatsLoop(acc, list, addr) ==
    IF list = <<>> THEN acc
    ELSE StatsLoop(IF TxSkipped(Head(list), addr) THEN acc
                   ELSE StatsStep(acc, Head(list)),
                   Tail(list), addr)

getCampaignOnChainStats(addr, list) ==
    LET acc == StatsLoop(StatsInit, list, addr)
    IN [participants |-> Cardinality(acc.participants),
        successTxs   |-> acc.successTxs,
        failedTxs    |-> acc.failedTxs,
        successWei   |-> acc.successWei,
        failedWei    |-> acc.failedWei,
        firstTs      |-> acc.firstTs]

----------------------------------------------------------------------------
\* Inputs of the aggregation

\* No stats yet: the call has not returned.
NoStats ==
    [participants |-> NoNum, successTxs |-> NoNum, failedTxs |-> NoNum,
     successWei |-> NoNum, failedWei |-> NoNum, firstTs |-> NoNum]

\* Longest transaction list.
MaxTxs == 4

AddrA  == <<"0", "x", "C", "A">>     \* the campaign, as the explorer prints it
AddrAl == <<"0", "x", "c", "a">>     \* the campaign, canonical
AddrB  == <<"0", "x", "b", "0">>     \* another contract
W1     == <<"0", "x", "D", "1">>     \* a wallet
W1l    == <<"0", "x", "d", "1">>     \* the same wallet, lower case
W2     == <<"0", "x", "e", "2">>     \* another wallet

Tx(to, from, value, status, timestamp) ==
    [to |-> to, from |-> from, value |-> value, status |-> status,
     timestamp |-> timestamp]

\* The four transactions of the classification example.
ExampleTxs ==
    << Tx(AddrA, W1, 100, "ok", 2),
       Tx(AddrA, W1, 50, "error", 1),
       Tx(AddrB, W1, 10, "ok", 1),
       Tx(AddrA, W1, 0, "ok", 1) >>

\* The transactions a fetched list is drawn from: the example's four, the
\* same wallet in another case, a second wallet, a pending transaction (no
\* status, no timestamp), a reverted payment of a wallet that never
\* succeeds, a contract creation (no destination) and an absent value.
TxPool ==
    { ExampleTxs[i] : i \in 1..4 } \cup
    { Tx(AddrAl, W1l, 50, "ok", 1),
      Tx(AddrA, W2, 100, "ok", 3),
      Tx(AddrA, W2, 10, Null, NoNum),
      Tx(AddrA, W2, 50, "error", 1),
      Tx(NoStr, W2, 100, "ok", 1),
      Tx(AddrA, NoStr, NoNum, "ok", 2) }

\* The explorer returns one more transaction of the address.
FetchTx(t) ==
    /\ Len(txs) < MaxTxs
    /\ txs' = Append(txs, t)
    /\ oc' = NoStats
    /\ UNCHANGED <<campAddr, discVars, runVars, metricVars, extraVars>>

\* The aggregation runs over the fetched list.
Aggregate ==
    /\ oc = NoStats
    /\ oc' = getCampaignOnChainStats(campAddr, txs)
    /\ UNCHANGED <<campAddr, txs, discVars, runVars, metricVars, extraVars>>

----------------------------------------------------------------------------
\* Discovery of campaigns from factory logs

CAMPAIGN_CREATED_TOPIC ==
    "0xbb6e1a036316f8a54a4010c72f0adc5e7b714b15cff9045f280f3080b5fb5a60"

CAMPAIGN_CREATED_TOPIC_2 ==
    "0x6056366dba45431fd6a8854ad9f2594942b02c4f2c3f6fbc329b3079b027b8b4"

\* CHAINS.base.factories, in order.
Factories ==
    << "0xe62DC9DEA493d3d2072d154a877A0715C1CAe03D",
       "0x6187CB90B868f9eD34cc9fd4B0B78e2e9cAb4248" >>

FactorySet == { Factories[i] : i \in 1..Len(Factories) }

\* '0'.repeat(n)
Zeros(n) == [i \in 1..n |-> "0"]

\* s.slice(-n)
SliceLast(s, n) ==
    IF Len(s) <= n THEN s ELSE SubSeq(s, Len(s) - n + 1, Len(s))

\* s.slice(a, b), 0 <= a <= b
Slice(s, a, b) ==
    IF a >= Len(s) THEN <<>>
    ELSE SubSeq(s, a + 1, IF b <= Len(s) THEN b ELSE Len(s))

Prefix0x == <<"0", "x">>

\* '0x' + '0'.repeat(40)
ZeroAddress == Prefix0x \o Zeros(40)

\* A 32-byte topic that holds a 20-byte address.
AddressTopic(a40) == Prefix0x \o Zeros(24) \o a40

\* A data field of three words, the third holding a 20-byte address.
IcData(a40) == Prefix0x \o Zeros(128) \o Zeros(24) \o a40

Hex40(c1, c2) == Zeros(38) \o <<c1, c2>>

Log(topic0, topic1, data) ==
    [topics |-> IF topic0 = Null THEN <<>>
                ELSE IF topic1 = NoStr THEN <<topic0>>
                ELSE <<topic0, topic1>>,
     data |-> data]

\* The logs a factory's listing is drawn from: three creation logs of one
\* campaign (its address in upper and lower case; the third data word zero,
\* one IC, another IC; both event signatures), a creation log of a second
\* campaign with a one-word data field, a creation log of the zero address
\* and a log of another event.
LogIds == 1..6

LogOfId(id) ==
    CASE id = 1 -> Log(CAMPAIGN_CREATED_TOPIC, AddressTopic(Hex40("A", "1")),
                       Prefix0x \o Zeros(192))
      [] id = 2 -> Log(CAMPAIGN_CREATED_TOPIC_2, AddressTopic(Hex40("a", "1")),
                       IcData(Hex40("C", "3")))
      [] id = 3 -> Log(CAMPAIGN_CREATED_TOPIC, AddressTopic(Hex40("a", "1")),
                       IcData(Hex40("d", "4")))
      [] id = 4 -> Log(CAMPAIGN_CREATED_TOPIC, AddressTopic(Hex40("b", "2")),
                       Prefix0x \o Zeros(64))
      [] id = 5 -> Log(CAMPAIGN_CREATED_TOPIC, AddressTopic(Zeros(40)), NoStr)
      [] id = 6 -> Log("0xother", AddressTopic(Hex40("e", "5")), NoStr)
      [] id = 7 -> Log(CAMPAIGN_CREATED_TOPIC, NoStr, NoStr)
      [] id = 8 -> Log(CAMPAIGN_CREATED_TOPIC, Prefix0x \o <<"a", "b", "c", "d">>, NoStr)

\* Creation logs whose first indexed topic is missing (7) or two bytes
\* long (8).
MalformedIds == {7, 8}

\* log.topics?.[0]
Topic0(log) == IF Len(log.topics) >= 1 THEN log.topics[1] ELSE Null

\* log.topics[1] ?? ''
Topic1(log) == IF Len(log.topics) >= 2 THEN log.topics[2] ELSE <<>>

\* const addr = ('0x' + (log.topics[1] ?? '').slice(-40)).toLowerCase()
LogAddress(log) == toLowerCase(Prefix0x \o SliceLast(Topic1(log), 40))

\* The IC taken from the third 32-byte word of the data field.
LogIc(log) ==
    IF log.data # NoStr /\ Len(log.data) >= 194
    THEN LET icRaw == Slice(log.data, 2 + 128, 2 + 192)
         IN IF icRaw # <<>> /\ icRaw # Zeros(64)
            THEN toLowerCase(Prefix0x \o SliceLast(icRaw, 40))
            ELSE NoStr
    ELSE NoStr

\* A Map is the sequence of its entries in insertion order.
MapHas(m, k) == \E i \in 1..Len(m) : m[i].key = k

MapGet(m, k) == m[CHOOSE i \in 1..Len(m) : m[i].key = k].value

\* Map.prototype.set keeps the position of a key it already holds.
MapSet(m, k, v) ==
    IF MapHas(m, k)
    THEN [i \in 1..Len(m) |-> IF m[i].key = k THEN [key |-> k, value |-> v] ELSE m[i]]
    ELSE Append(m, [key |-> k, value |-> v])

MapValues(m) == [i \in 1..Len(m) |-> m[i].value]

\* new Map(campaigns.map(c => [c.address, c]))
RECURSIVE MapOf(_, _)
MapOf(m, campaigns) ==
    IF campaigns = <<>> THEN m
    ELSE MapOf(MapSet(m, Head(campaigns).address, Head(campaigns)), Tail(campaigns))

\* Returns the pushed list as it is, without the Map.
Dedupe_None(campaigns) == campaigns

\* [...new Map(campaigns.map(c => [c.address, c])).values()]
Dedupe(campaigns) == MapValues(MapOf(<<>>, campaigns))

\* The inner loop of discoverCampaigns over one factory's logs: topicSet is
\* the recognized creation topics, withFactory whether the pushed object
\* carries the factory.
RECURSIVE PushCampaigns(_, _, _, _, _)
PushCampaigns(campaigns, logs, fac, topicSet, withFactory) ==
    IF logs = <<>> THEN campaigns
    ELSE LET log  == LogOfId(Head(logs))
             addr == LogAddress(log)
             c    == IF withFactory THEN [address |-> addr, factory |-> fac]
                     ELSE [address |-> addr]
         IN PushCampaigns(
                IF Topic0(log) \in topicSet /\ addr # ZeroAddress
                THEN Append(campaigns, c) ELSE campaigns,
                Tail(logs), fac, topicSet, withFactory)

\* Gives up at the first factory whose fetch throws.
RECURSIVE FactoryLoop_Abort(_, _, _, _, _, _)
FactoryLoop_Abort(campaigns, facs, logsOf, fetched, topicSet, withFactory) ==
    IF facs = <<>> THEN campaigns
    ELSE IF Head(facs) \notin fetched THEN <<>>
    ELSE FactoryLoop_Abort(
            PushCampaigns(campaigns, logsOf[Head(facs)], Head(facs), topicSet, withFactory),
            Tail(facs), logsOf, fetched, topicSet, withFactory)

\* The outer loop: a factory whose fetch throws is skipped.
RECURSIVE FactoryLoop(_, _, _, _, _, _)
FactoryLoop(campaigns, facs, logsOf, fetched, topicSet, withFactory) ==
    IF facs = <<>> THEN campaigns
    ELSE FactoryLoop(
            IF Head(facs) \in fetched
            THEN PushCampaigns(campaigns, logsOf[Head(facs)], Head(facs),
                               topicSet, withFactory)
            ELSE campaigns,
            Tail(facs), logsOf, fetched, topicSet, withFactory)

\* campaign-tracker.mjs
discoverCampaigns(logsOf, fetched) ==
    Dedupe(FactoryLoop(<<>>, Factories, logsOf, fetched,
                       {CAMPAIGN_CREATED_TOPIC}, TRUE))

\* The JSON tracker: both creation topics, no factory in the result.
discoverCampaignsJson(logsOf, fetched) ==
    Dedupe(FactoryLoop(<<>>, Factories, logsOf, fetched,
                       {CAMPAIGN_CREATED_TOPIC, CAMPAIGN_CREATED_TOPIC_2}, FALSE))

\* Overwrites the entry of an address on every log that mentions it.
MapUpdate_Overwrite(m, addr, ic) ==
    MapSet(m, addr, [address |-> addr, ic |-> ic])

\* if (!campaignMap.has(addr) || (ic && !campaignMap.get(addr)?.ic))
\*     campaignMap.set(addr, { address: addr, ic })
MapUpdate(m, addr, ic) ==
    IF ~MapHas(m, addr) \/ (ic # NoStr /\ ic # <<>> /\ MapGet(m, addr).ic = NoStr)
    THEN MapSet(m, addr, [address |-> addr, ic |-> ic])
    ELSE m

\* The inner loop of discoverOnChainCampaigns.
RECURSIVE MapLogs(_, _)
MapLogs(m, logs) ==
    IF logs = <<>> THEN m
    ELSE LET log  == LogOfId(Head(logs))
             addr == LogAddress(log)
         IN MapLogs(
                IF Topic0(log) \in {CAMPAIGN_CREATED_TOPIC, CAMPAIGN_CREATED_TOPIC_2}
                   /\ addr # ZeroAddress
                THEN MapUpdate(m, addr, LogIc(log)) ELSE m,
                Tail(logs))

RECURSIVE MapFactories(_, _, _, _)
MapFactories(m, facs, logsOf, fetched) ==
    IF facs = <<>> THEN m
    ELSE MapFactories(
            IF Head(facs) \in fetched THEN MapLogs(m, logsOf[Head(facs)]) ELSE m,
            Tail(facs), logsOf, fetched)

\* The campaigns API route.
discoverOnChainCampaigns(logsOf, fetched) ==
    MapValues(MapFactories(<<>>, Factories, logsOf, fetched))

----------------------------------------------------------------------------
\* Inputs of discovery

\* Most logs over all factories.
MaxLogs == 3

NoDisc == [by |-> "none", fetched |-> {}, result |-> <<>>, runs |-> 0]

TotalLogs == SumOver(FactorySet, [f \in FactorySet |-> Len(facLogs[f])])

\* The explorer holds one more log of a factory.
AddLog(fac, id) ==
    /\ TotalLogs < MaxLogs
    /\ facLogs' = [facLogs EXCEPT ![fac] = Append(@, id)]
    /\ disc' = NoDisc
    /\ UNCHANGED <<statsVars, runVars, metricVars, extraVars>>

DiscResult(by, fetched) ==
    CASE by = "tracker" -> discoverCampaigns(facLogs, fetched)
      [] by = "json"    -> discoverCampaignsJson(facLogs, fetched)
      [] by = "route"   -> discoverOnChainCampaigns(facLogs, fetched)

\* One call of a program's discovery; fetched are the factories whose log
\* fetch did not throw.
Discover(by, fetched) ==
    /\ disc.runs < 2
    /\ disc.by \in {"none", by}
    /\ disc.by = by => disc.fetched = fetched
    /\ disc' = [by |-> by, fetched |-> fetched,
                result |-> DiscResult(by, fetched), runs |-> disc.runs + 1]
    /\ UNCHANGED <<facLogs, statsVars, runVars, metricVars, extraVars>>

StatsIdle == campAddr = AddrAl /\ txs = <<>> /\ oc = NoStats

DiscIdle == facLogs = [f \in FactorySet |-> <<>>] /\ disc = NoDisc

----------------------------------------------------------------------------
\* The persisted state and the snapshot ring buffer (campaign-tracker.mjs)

\* const DAY_MS = 86_400_000, in clock units.
DAY_MS == 10

\* The keys of CHAINS, in order.
ChainKeys == <<"base", "zksync">>

Abs(x) == IF x < 0 THEN -x ELSE x

Max0(x) == IF x < 0 THEN 0 ELSE x

\* state[chainKey] when the file has no such key.
NoChain == [present |-> FALSE, campaigns |-> <<>>]

\* The free campaigns the platform can list, by intelligentContractAddress.
FreeSet == {"ic1"}

\* prevFree[ic] when state._freeCamps has no such key.
NoFree == [present |-> FALSE, users |-> 0, subs |-> 0]

\* The state of a missing file, {}.  file tells what is on disk: nothing
\* ("missing"), what saveState wrote ("json") or text that is not JSON
\* ("corrupt").
EmptyState ==
    [chains |-> [k \in {"base", "zksync"} |-> NoChain], snapshots |-> <<>>,
     freeCamps |-> [f \in FreeSet |-> NoFree], file |-> "missing"]

\* A file that is not JSON: nothing of it can be read.
CorruptState == [EmptyState EXCEPT !.file = "corrupt"]

\* loadState(): existsSync(STATE_FILE) ? JSON.parse(readFileSync(...)) : {}.
\* JSON.parse of a corrupt file throws.
loadState(onDisk) ==
    IF onDisk.file = "corrupt"
    THEN [thrown |-> TRUE, state |-> EmptyState]
    ELSE [thrown |-> FALSE, state |-> onDisk]

\* saveState(state): writeFileSync(STATE_FILE, JSON.stringify(state, null, 2))
saveState(state) == [state EXCEPT !.file = "json"]

\* Keeps every snapshot, however old.
addSnapshot_NoPrune(state, totalFeesUsd, ts) ==
    [state EXCEPT !.snapshots = Append(@, [ts |-> ts, totalFeesUsd |-> totalFeesUsd])]

\* Replaces the series by the new snapshot alone.
addSnapshot_OnlyNew(state, totalFeesUsd, ts) ==
    [state EXCEPT !.snapshots = <<[ts |-> ts, totalFeesUsd |-> totalFeesUsd]>>]

\* addSnapshot(state, totalFeesUsd), ts being its Date.now()
addSnapshot(state, totalFeesUsd, ts) ==
    LET cutoff == ts - 8 * DAY_MS
        InWindow(s) == s.ts >= cutoff
    IN [state EXCEPT !.snapshots =
            SelectSeq(Append(@, [ts |-> ts, totalFeesUsd |-> totalFeesUsd]), InWindow)]

\* snapshotDelta returning null.
NoSnap == [ts |-> NoNum, totalFeesUsd |-> NoNum]

\* for (const s of snapshots) { if (diff < bestDiff) { bestDiff = diff; best = s; } }
\* best is an index, 0 while best is null and bestDiff is Infinity.
RECURSIVE ClosestLoop(_, _, _, _)
ClosestLoop(snapshots, target, i, best) ==
    IF i > Len(snapshots) THEN best
    ELSE ClosestLoop(snapshots, target, i + 1,
            IF best = 0 \/ Abs(snapshots[i].ts - target) < Abs(snapshots[best].ts - target)
            THEN i ELSE best)

\* snapshotDelta(state, msAgo), nowT being its Date.now()
snapshotDelta(state, msAgo, nowT) ==
    LET snapshots == state.snapshots
        target    == nowT - msAgo
        best      == ClosestLoop(snapshots, target, 1, 0)
    IN IF Len(snapshots) < 2 THEN NoSnap
       ELSE IF best = 0 \/ Abs(snapshots[best].ts - target) * 10 > msAgo * 2 THEN NoSnap
       ELSE snapshots[best]

----------------------------------------------------------------------------
\* main (campaign-tracker.mjs).  Amounts of the ledger are in ETH, so that
\* successEth = Number(successWei) / 1e18 is the stored number itself, and
\* USD amounts are ETH times the price.  The rendering of the lines is
\* left out.

CampaignOne == AddrAl

CampaignTwo == AddrB

\* The campaign contracts the factories of chain "base" have created, in the
\* order discovery returns them.
Campaigns == <<CampaignOne, CampaignTwo>>

CampaignSet == {CampaignOne, CampaignTwo}

ChainOf(c) == "base"

\* getEthPrice's fallback when the price feed fails.
FALLBACK_PRICE == 2000

\* prevChain.campaigns[camp.address] ?? { participants: 0, successWei: '0', ... }
PrevOf(prevChain, c) ==
    IF prevChain.present /\ c \in DOMAIN prevChain.campaigns
    THEN prevChain.campaigns[c]
    ELSE [participants |-> 0, successTxs |-> 0, successWei |-> 0, failedWei |-> 0]

\* The totals before the chain loop.
TotalsInit ==
    [grandSuccessUsd |-> 0, grandFailedUsd |-> 0, grandParticipants |-> 0,
     grandSuccessTxs |-> 0, grandFailedTxs |-> 0,
     grandNewParticipants |-> 0, grandNewSuccessEth |-> 0,
     earliestTs |-> NoNum, hasActivity |-> FALSE,
     deltas |-> <<>>, skipped |-> {}]

\* Reports the difference without the clamp.
Deltas_Signed(ocs, prev) ==
    [newParticipants |-> ocs.participants - prev.participants,
     newSuccessWei   |-> ocs.successWei - prev.successWei,
     newSuccessEth   |-> ocs.successWei - prev.successWei]

\* Deltas vs last run.
Deltas(ocs, prev) ==
    [newParticipants |-> Max0(ocs.participants - prev.participants),
     newSuccessWei   |-> ocs.successWei - prev.successWei,
     newSuccessEth   |-> Max0(ocs.successWei - prev.successWei)]

\* newChain.campaigns[camp.address] = { ... }
EntryOf(ocs) ==
    [participants |-> ocs.participants, successTxs |-> ocs.successTxs,
     successWei |-> ocs.successWei, failedWei |-> ocs.failedWei]

\* The body of the campaign loop for a campaign whose stats were fetched:
\* the new state entry, the deltas and the totals.
CampaignStep(acc, newChain, prevChain, c, ocs, price) ==
    LET prev == PrevOf(prevChain, c)
        d    == Deltas(ocs, prev)
    IN [totals |->
          [acc EXCEPT
             !.grandSuccessUsd = @ + ocs.successWei * price,
             !.grandFailedUsd = @ + ocs.failedWei * price,
             !.grandParticipants = @ + ocs.participants,
             !.grandSuccessTxs = @ + ocs.successTxs,
             !.grandFailedTxs = @ + ocs.failedTxs,
             !.grandNewParticipants = @ + d.newParticipants,
             !.grandNewSuccessEth = @ + d.newSuccessEth,
             !.earliestTs = IF ocs.firstTs # NoNum /\ ocs.firstTs # 0
                               /\ (@ = NoNum \/ @ = 0 \/ ocs.firstTs < @)
                            THEN ocs.firstTs ELSE @,
             !.hasActivity = @ \/ d.newParticipants > 0 \/ d.newSuccessWei > 0,
             !.deltas = Append(@, [campaign |-> c, oc |-> ocs, prev |-> prev,
                                   newParticipants |-> d.newParticipants,
                                   newSuccessEth |-> d.newSuccessEth,
                                   newSuccessUsd |-> d.newSuccessEth * price])],
        newChain |-> [present |-> TRUE,
                      campaigns |-> [x \in DOMAIN newChain.campaigns \cup {c} |->
                                        IF x = c THEN EntryOf(ocs)
                                        ELSE newChain.campaigns[x]]]]

\* for (const camp of campaigns): fetched[c] is the transaction list the
\* explorer returned for c, absent when the fetch threw.
RECURSIVE CampaignLoop(_, _, _, _, _, _)
CampaignLoop(acc, newChain, prevChain, camps, fetched, price) ==
    IF camps = <<>> THEN [totals |-> acc, newChain |-> newChain]
    ELSE LET c == Head(camps)
             r == IF c \in DOMAIN fetched
                  THEN CampaignStep(acc, newChain, prevChain, c,
                                    getCampaignOnChainStats(c, fetched[c]), price)
                  ELSE [totals |-> [acc EXCEPT !.skipped = @ \cup {c}],
                        newChain |-> newChain]
         IN CampaignLoop(r.totals, r.newChain, prevChain, Tail(camps), fetched, price)

\* The campaigns of found that discovery returns for the chain.
RECURSIVE OfChain(_, _)
OfChain(camps, k) ==
    IF camps = <<>> THEN <<>>
    ELSE (IF ChainOf(Head(camps)) = k THEN <<Head(camps)>> ELSE <<>>)
         \o OfChain(Tail(camps), k)

\* for (const [chainKey, chain] of Object.entries(CHAINS))
RECURSIVE ChainLoop(_, _, _, _, _, _)
ChainLoop(acc, state, keys, found, fetched, price) ==
    IF keys = <<>> THEN [totals |-> acc, state |-> state]
    ELSE LET k     == Head(keys)
             camps == OfChain(found, k)
             r     == CampaignLoop(acc, [present |-> TRUE, campaigns |-> <<>>],
                                   state.chains[k], camps, fetched, price)
         IN IF camps = <<>>
            THEN ChainLoop(acc, state, Tail(keys), found, fetched, price)
            ELSE ChainLoop(r.totals, [state EXCEPT !.chains[k] = r.newChain],
                           Tail(keys), found, fetched, price)

\* No ARR line.
NoArr == [method |-> "none", num |-> 0, den |-> 1]

\* An estimate of num / den USD per day.
ArrPart(method, num, den) == [method |-> method, num |-> num, den |-> den]

\* arrParts as main fills it: since launch, 24h, 7d, else the 1h estimate.
ArrParts(state, totalRevenue, earliestTs, newSuccessUsd, nowMs) ==
    LET snap24 == snapshotDelta(state, DAY_MS, nowMs)
        snap7d == snapshotDelta(state, 7 * DAY_MS, nowMs)
        since  == IF earliestTs # NoNum /\ earliestTs # 0 /\ totalRevenue > 0
                     /\ (nowMs - earliestTs) * 2 >= DAY_MS
                  THEN <<ArrPart("since launch", totalRevenue * DAY_MS, nowMs - earliestTs)>>
                  ELSE <<>>
        day    == IF snap24 # NoSnap /\ totalRevenue - snap24.totalFeesUsd > 0
                  THEN <<ArrPart("24h", totalRevenue - snap24.totalFeesUsd, 1)>>
                  ELSE <<>>
        week   == IF snap7d # NoSnap /\ totalRevenue - snap7d.totalFeesUsd > 0
                  THEN <<ArrPart("7d", totalRevenue - snap7d.totalFeesUsd, 7)>>
                  ELSE <<>>
        parts  == since \o day \o week
    IN IF parts = <<>> /\ newSuccessUsd > 0
       THEN <<ArrPart("1h est", newSuccessUsd * 24, 1)>>
       ELSE parts

NoReport ==
    [status |-> "none", at |-> 0, loaded |-> EmptyState, totals |-> TotalsInit,
     totalRevenue |-> 0, arrParts |-> <<>>, arr |-> NoArr,
     file |-> "missing", cause |-> "none", failed |-> {}, steps |-> <<>>,
     emitted |-> "none", snap24 |-> NoSnap, snap7d |-> NoSnap, rates |-> <<>>]

\* No daily rate: dailyRate = null.
NoDaily == [num |-> NoNum, den |-> 1]

\* const chainAgeDays = oc.firstTs ? (nowMs - oc.firstTs) / DAY_MS : ageDays;
\* const dailyRate = (chainAgeDays && chainAgeDays > 0.1)
\*     ? successUsd / chainAgeDays : null;
\* for a campaign without platform metadata (ageDays is null).  The rate
\* is the fraction num / den per day.
DailyRate(ocs, price, nowMs) ==
    LET chainAge == nowMs - ocs.firstTs
    IN IF ocs.firstTs # NoNum /\ ocs.firstTs # 0 /\ chainAge # 0 /\ chainAge * 10 > DAY_MS
       THEN [num |-> ocs.successWei * price * DAY_MS, den |-> chainAge]
       ELSE NoDaily

\* What fetchRallySubmissions gave for a free campaign; when it throws,
\* users and subs stay 0 and [].
Seen(answer) ==
    IF answer.ok THEN [users |-> answer.users, subs |-> answer.subs]
    ELSE [users |-> 0, subs |-> 0]

\* newUsers > 0 || newSubs > 0 of a free campaign.
FreeActivity(prev, seen) ==
    Max0(seen.users - prev.users) > 0 \/ Max0(seen.subs - prev.subs) > 0

\* if (freeActiveCamps.length > 0) { ... state._freeCamps = newFree; }
\* free[f] is the listing and the submissions fetch of campaign f.
FreeLoop(state, free) ==
    LET listed == {f \in FreeSet : free[f].listed}
    IN IF listed = {}
       THEN [state |-> state, hasActivity |-> FALSE]
       ELSE [state |-> [state EXCEPT !.freeCamps =
                           [f \in FreeSet |->
                               IF f \in listed
                               THEN [present |-> TRUE, users |-> Seen(free[f]).users,
                                     subs |-> Seen(free[f]).subs]
                               ELSE NoFree]],
             hasActivity |-> \E f \in listed :
                                 FreeActivity(state.freeCamps[f], Seen(free[f]))]

\* The calls main makes for the campaigns of one chain, in order.
RECURSIVE CampSteps(_)
CampSteps(camps) ==
    IF camps = <<>> THEN <<>>
    ELSE <<"getIntelligentContract", "getCampaignOnChainStats">> \o CampSteps(Tail(camps))

RECURSIVE ChainSteps(_, _)
ChainSteps(keys, found) ==
    IF keys = <<>> THEN <<>>
    ELSE <<"discoverCampaigns">> \o CampSteps(OfChain(found, Head(keys)))
         \o ChainSteps(Tail(keys), found)

RECURSIVE FreeSteps(_)
FreeSteps(listed) ==
    IF listed = {} THEN <<>>
    ELSE LET f == CHOOSE x \in listed : TRUE
         IN <<"fetchRallySubmissions">> \o FreeSteps(listed \ {f})

\* Saves before the campaigns are processed as well as at the end.
MainSteps_SaveEarly(stop, found, free) ==
    <<"loadState", "saveState", "getEthPrice", "fetchAllRallyCampaigns">>
    \o (IF stop = "end"
        THEN ChainSteps(ChainKeys, found)
             \o FreeSteps({f \in FreeSet : free[f].listed})
             \o <<"addSnapshot", "saveState">>
        ELSE <<>>)

\* The steps of main up to the point where it stops: at loadState
\* ("state"), at fetchAllRallyCampaigns ("listing") or at its end.
MainSteps(stop, found, free) ==
    CASE stop = "state"   -> <<"loadState">>
      [] stop = "listing" -> <<"loadState", "getEthPrice", "fetchAllRallyCampaigns">>
      [] OTHER            -> <<"loadState", "getEthPrice", "fetchAllRallyCampaigns">>
                             \o ChainSteps(ChainKeys, found)
                             \o FreeSteps({f \in FreeSet : free[f].listed})
                             \o <<"addSnapshot", "saveState">>

\* A catch handler that still records a snapshot of the run.
FatalResult_Snapshots(cause, onDisk, found, free, nowMs) ==
    [saved  |-> saveState(addSnapshot(onDisk, 0, nowMs)),
     report |-> [NoReport EXCEPT !.status = "fatal", !.at = nowMs, !.loaded = onDisk,
                                 !.file = onDisk.file, !.cause = cause,
                                 !.steps = MainSteps(cause, found, free)]]

\* main().catch(err => { console.error('FATAL:', err); process.exit(1); })
\* after loadState ("state") or fetchAllRallyCampaigns ("listing") threw.
FatalResult(cause, onDisk, found, free, nowMs) ==
    [saved  |-> onDisk,
     report |-> [NoReport EXCEPT !.status = "fatal", !.at = nowMs, !.loaded = onDisk,
                                 !.file = onDisk.file, !.cause = cause,
                                 !.failed = IF cause = "listing"
                                            THEN {"fetchAllRallyCampaigns"} ELSE {},
                                 !.steps = MainSteps(cause, found, free)]]

\* main() to its end: loadState, the chain loop, the free campaigns, the
\* ARR cascade, addSnapshot, saveState and the output.  onDisk is the state
\* file, price getEthPrice's result, found the campaigns discovery
\* returned, fetched the transaction lists fetched, free the answers of
\* the platform for the free campaigns.
MainResult(onDisk, price, found, fetched, free, nowMs) ==
    LET state         == loadState(onDisk).state
        r             == ChainLoop(TotalsInit, state, ChainKeys, found, fetched, price)
        fr            == FreeLoop(r.state, free)
        totalRevenue  == r.totals.grandSuccessUsd
        newSuccessUsd == r.totals.grandNewSuccessEth * price
        arrParts      == ArrParts(r.state, totalRevenue, r.totals.earliestTs,
                                  newSuccessUsd, nowMs)
        hasActivity   == r.totals.hasActivity \/ fr.hasActivity
        threw         == {c \in {found[i] : i \in DOMAIN found} : c \notin DOMAIN fetched}
    IN IF loadState(onDisk).thrown
       THEN FatalResult("state", onDisk, found, free, nowMs)
       ELSE [saved  |-> saveState(addSnapshot(fr.state, totalRevenue, nowMs)),
             report |-> [status |-> "done", at |-> nowMs, loaded |-> state,
                         totals |-> r.totals, totalRevenue |-> totalRevenue,
                         arrParts |-> arrParts,
                         arr |-> IF arrParts = <<>> THEN NoArr ELSE arrParts[1],
                         file |-> onDisk.file, cause |-> "none",
                         failed |-> (IF threw # {} THEN {"getCampaignOnChainStats"} ELSE {})
                                    \cup (IF \E f \in FreeSet : free[f].listed /\ ~free[f].ok
                                          THEN {"fetchRallySubmissions"} ELSE {}),
                         steps |-> MainSteps("end", found, free),
                         emitted |-> IF hasActivity THEN "TELEGRAM_MSG" ELSE "NO_ACTIVITY",
                         snap24 |-> snapshotDelta(r.state, DAY_MS, nowMs),
                         snap7d |-> snapshotDelta(r.state, 7 * DAY_MS, nowMs),
                         rates |-> [i \in DOMAIN r.totals.deltas |->
                                       DailyRate(r.totals.deltas[i].oc, price, nowMs)]]]

----------------------------------------------------------------------------
\* The per-campaign diagnostics and the totals of the campaign loop
\* (campaign-tracker.mjs, the JSON tracker, the two API routes)

\* One campaign as the loop body has it once its fetches are done: the
\* on-chain stats, the platform's users and approved submissions, and
\* whether the listing says the campaign has ended.
Camp(participants, successTxs, failedTxs, rallyUsers, rallyApproved, isEnded) ==
    [participants |-> participants, successTxs |-> successTxs, failedTxs |-> failedTxs,
     rallyUsers |-> rallyUsers, rallyApproved |-> rallyApproved, isEnded |-> isEnded]

\* The campaigns the loop can meet.  Every sender sends at least one
\* successful transaction, and every user at least one submission.
CampPool ==
    { Camp(10, 12, 0, 3, 3, FALSE),
      Camp(2, 2, 0, 5, 5, FALSE),
      Camp(0, 0, 1, 0, 0, FALSE),
      Camp(0, 0, 0, 0, 0, FALSE),
      Camp(4, 4, 0, 2, 0, FALSE),
      Camp(2, 4, 1, 9, 2, FALSE),
      Camp(0, 0, 0, 2, 2, TRUE),
      Camp(3, 3, 0, 3, 1, TRUE) }

\* approvalRate when it is not computed.
NoRate == [num |-> NoNum, den |-> 1]

\* campaign-tracker.mjs: const issues = []; ... issues.push(...)
TrackerIssues(c) ==
    LET gap == c.rallyUsers - c.participants
    IN (IF c.failedTxs > 0 THEN {"failed txs"} ELSE {})
       \cup (IF c.rallyUsers > 0 /\ c.participants > 0 /\ gap > 5
             THEN {"funnel leak"} ELSE {})
       \cup (IF c.rallyUsers > 0 /\ c.participants > 0 /\ gap < -3
             THEN {"ghost txs"} ELSE {})
       \cup (IF c.rallyApproved > 0 /\ c.successTxs > 0
                /\ c.rallyApproved * 2 < c.successTxs
             THEN {"low approval"} ELSE {})

\* campaign-tracker.mjs: the row of a campaign; the row is left out of the
\* table (continue) after the totals have been accumulated.
TrackerRow(c) ==
    [camp |-> c,
     reported |-> ~(c.participants = 0 /\ c.rallyUsers = 0 /\ c.successTxs = 0),
     counted |-> TRUE,
     ghostWallets |-> NoNum,
     issues |-> TrackerIssues(c),
     approvalRate |-> NoRate]

\* The JSON tracker: an ended campaign without participants is skipped
\* before anything is accumulated.
JsonRow(c) ==
    LET skip  == c.isEnded /\ c.participants = 0
        ghost == c.participants - c.rallyUsers
    IN [camp |-> c,
        reported |-> ~skip,
        counted |-> ~skip,
        ghostWallets |-> IF ghost > 0 THEN ghost ELSE 0,
        issues |-> {},
        approvalRate |-> IF c.rallyApproved > 0 /\ c.successTxs > 0
                         THEN [num |-> c.rallyApproved, den |-> c.successTxs]
                         ELSE NoRate]

\* The campaigns route: ghostWallets = Math.max(0, stats.participants - users)
RouteRow(c) ==
    [camp |-> c,
     reported |-> TRUE,
     counted |-> TRUE,
     ghostWallets |-> Max0(c.participants - c.rallyUsers),
     issues |-> {},
     approvalRate |-> NoRate]

\* The stats route: a campaign without participants and users is skipped
\* before anything is accumulated.
Route2Row(c) ==
    LET skip       == c.participants = 0 /\ c.rallyUsers = 0
        ghostCount == c.participants - c.rallyUsers
    IN [camp |-> c,
        reported |-> ~skip,
        counted |-> ~skip,
        ghostWallets |-> NoNum,
        issues |-> (IF c.failedTxs > 0 THEN {"failed txs"} ELSE {})
                   \cup (IF ghostCount > 3 THEN {"ghost wallets"} ELSE {}),
        approvalRate |-> NoRate]

Programs == {"tracker", "json", "route", "route2"}

RowOf(by, c) ==
    CASE by = "tracker" -> TrackerRow(c)
      [] by = "json"    -> JsonRow(c)
      [] by = "route"   -> RouteRow(c)
      [] by = "route2"  -> Route2Row(c)

\* The sum of f[i] over the campaigns the program accumulates.
SumCounted(rows, f) ==
    SumOver({i \in DOMAIN rows : rows[i].counted}, f)

\* The ghost-wallet figure of the run.  campaign-tracker.mjs prints
\* grandParticipants - grandRallyUsers (when it is above 5); the others add
\* up each campaign's participants - users where that is positive.
GhostTotal(by, rows) ==
    IF by = "tracker"
    THEN SumCounted(rows, [i \in DOMAIN rows |-> rows[i].camp.participants])
         - SumCounted(rows, [i \in DOMAIN rows |-> rows[i].camp.rallyUsers])
    ELSE SumCounted(rows, [i \in DOMAIN rows |->
            LET ghost == rows[i].camp.participants - rows[i].camp.rallyUsers
            IN IF ghost > 0 THEN ghost ELSE 0])

\* No loop has run.
NoSummary ==
    [by |-> "none", rows |-> <<>>, ghostWallets |-> 0, ghostFlag |-> FALSE,
     participants |-> 0, rallyUsers |-> 0, successTxs |-> 0, failedTxs |-> 0]

\* for (const camp of campaigns) { ... } and the flags after it.
SummaryOf(by, list) ==
    LET rows  == [i \in DOMAIN list |-> RowOf(by, list[i])]
        ghost == GhostTotal(by, rows)
    IN [by |-> by, rows |-> rows, ghostWallets |-> ghost,
        ghostFlag |-> by = "tracker" /\ ghost > 5,
        participants |-> SumCounted(rows, [i \in DOMAIN rows |-> rows[i].camp.participants]),
        rallyUsers |-> SumCounted(rows, [i \in DOMAIN rows |-> rows[i].camp.rallyUsers]),
        successTxs |-> SumCounted(rows, [i \in DOMAIN rows |-> rows[i].camp.successTxs]),
        failedTxs |-> SumCounted(rows, [i \in DOMAIN rows |-> rows[i].camp.failedTxs])]

\* Most campaigns in one loop.
MaxCamps == 2

\* Discovery returns one more campaign, with what is fetched for it.
AddCampaign(c) ==
    /\ Len(campList) < MaxCamps
    /\ campList' = Append(campList, c)
    /\ summary' = NoSummary
    /\ UNCHANGED <<subs, scored, pager, statsVars, discVars, runVars, extraVars>>

\* A program runs its campaign loop.
Summarize(by) ==
    /\ summary = NoSummary
    /\ summary' = SummaryOf(by, campList)
    /\ UNCHANGED <<campList, subs, scored, pager, statsVars, discVars, runVars, extraVars>>

RowsIdle == campList = <<>> /\ summary = NoSummary

----------------------------------------------------------------------------
\* The figures derived from a campaign's submissions

\* atemporalPoints of a submission as JSON gives it: absent, a number, or a
\* decimal string; units is its value in units of 1e18.
Points(kind, units) == [kind |-> kind, units |-> units]

NoPoints == Points("absent", 0)

\* One submission: its user, its three rejection markers (set or not) and
\* its score.
Submission(userXId, disqualifiedAt, hiddenAt, invalidatedAt, atemporalPoints) ==
    [userXId |-> userXId, disqualifiedAt |-> disqualifiedAt, hiddenAt |-> hiddenAt,
     invalidatedAt |-> invalidatedAt, atemporalPoints |-> atemporalPoints]

SubPool ==
    { Submission("u1", FALSE, FALSE, FALSE, Points("string", 2)),
      Submission("u2", FALSE, FALSE, FALSE, Points("number", 0)),
      Submission("u1", FALSE, FALSE, FALSE, Points("string", 3)),
      Submission("u3", FALSE, FALSE, FALSE, Points("string", 0)),
      Submission("u2", FALSE, TRUE, FALSE, NoPoints),
      Submission("u3", TRUE, FALSE, TRUE, Points("number", 3)) }

\* JavaScript's truthiness of s.atemporalPoints: undefined and the number 0
\* are falsy, every non-empty string is truthy, "0" included.
Truthy(p) == p.kind = "string" \/ (p.kind = "number" /\ p.units # 0)

\* Number(BigInt(s.atemporalPoints)) / 1e18
ScoreOf(p) == p.units

\* s.disqualifiedAt || s.hiddenAt || s.invalidatedAt
IsRejected(sub) == sub.disqualifiedAt \/ sub.hiddenAt \/ sub.invalidatedAt

\* Nothing has been derived.
NoScored ==
    [rallyRejected |-> NoNum, rallyApproved |-> NoNum, rallyUsers |-> NoNum,
     avgScore |-> [num |-> NoNum, den |-> 1]]

\* rallyRejected, rallyApproved, rallyUsers and avgScore of the fetched
\* submissions; avgScore is the fraction num / den.
SubStats(list) ==
    LET rejected == {i \in DOMAIN list : IsRejected(list[i])}
        scores   == {i \in DOMAIN list : Truthy(list[i].atemporalPoints)}
        total    == SumOver(scores, [i \in DOMAIN list |-> ScoreOf(list[i].atemporalPoints)])
    IN [rallyRejected |-> Cardinality(rejected),
        rallyApproved |-> Len(list) - Cardinality(rejected),
        rallyUsers |-> Cardinality({list[i].userXId : i \in DOMAIN list}),
        avgScore |-> IF scores # {}
                     THEN [num |-> total, den |-> Cardinality(scores)]
                     ELSE [num |-> 0, den |-> 1]]

\* Most submissions of one campaign.
MaxSubs == 3

\* The platform returns one more submission.
FetchSubmission(sub) ==
    /\ Len(subs) < MaxSubs
    /\ subs' = Append(subs, sub)
    /\ scored' = NoScored
    /\ UNCHANGED <<campList, summary, pager, statsVars, discVars, runVars, extraVars>>

\* The figures are derived from the fetched submissions.
Score ==
    /\ scored = NoScored
    /\ scored' = SubStats(subs)
    /\ UNCHANGED <<subs, campList, summary, pager, statsVars, discVars, runVars, extraVars>>

SubsIdle == subs = <<>> /\ scored = NoScored

----------------------------------------------------------------------------
\* getAllPages

\* getAllPages(baseUrl, maxPages = 5) of the JSON tracker.
DEFAULT_MAX_PAGES == 5

\* if (all.length > 500) break; of the stats route.
SAFETY_LIMIT == 500

\* The items one page can hold.
PageSizes == {0, 250}

\* The maxPages the callers pass; campaign-tracker.mjs and the stats route
\* have no such parameter.
MaxPagesOf(by) ==
    CASE by = "json"  -> {2, 3, DEFAULT_MAX_PAGES}
      [] by = "route" -> {5}
      [] OTHER        -> {NoNum}

\* No call is under way.
NoPager ==
    [by |-> "none", maxPages |-> NoNum, pages |-> 0, length |-> 0,
     url |-> FALSE, done |-> TRUE, thrown |-> FALSE]

\* The condition of the while loop: while (url) or while (url && pages < maxPages).
LoopGoesOn(p) ==
    /\ p.url
    /\ p.by \in {"json", "route"} => p.pages < p.maxPages

\* Most page fetches of one call that are followed.
PageCap == 6

\* getAllPages is called: let all = [], url = baseUrl, pages = 0.
CallPages(by, maxPages) ==
    /\ pager = NoPager
    /\ pager' = [by |-> by, maxPages |-> maxPages, pages |-> 0, length |-> 0,
                 url |-> TRUE, done |-> FALSE, thrown |-> FALSE]
    /\ UNCHANGED <<campList, summary, subs, scored, statsVars, discVars, runVars, extraVars>>

\* One turn of the loop: the page is fetched, its items are added, the
\* cursor is followed; the stats route breaks once it holds more than 500
\* items.  When the loop ends the items are returned.
FetchPage(items, next) ==
    /\ ~pager.done
    /\ pager.pages < PageCap
    /\ LET turned == [pager EXCEPT !.pages = @ + 1, !.length = @ + items, !.url = next]
           broken == pager.by = "route2" /\ turned.length > SAFETY_LIMIT
       IN pager' = [turned EXCEPT !.done = broken \/ ~LoopGoesOn(turned)]
    /\ UNCHANGED <<campList, summary, subs, scored, statsVars, discVars, runVars, extraVars>>

\* The fetch of the page throws (timeout, HTTP status): getAllPages throws.
FailPage ==
    /\ ~pager.done
    /\ pager.pages < PageCap
    /\ pager' = [pager EXCEPT !.pages = @ + 1, !.done = TRUE, !.thrown = TRUE]
    /\ UNCHANGED <<campList, summary, subs, scored, statsVars, discVars, runVars, extraVars>>

PagerIdle == pager = NoPager

MetricIdle == RowsIdle /\ SubsIdle /\ PagerIdle

----------------------------------------------------------------------------
\* The fee campaigns and the free campaigns of a run.  An on-chain campaign
\* is its address with the IC getIntelligentContract found for it (NoIc
\* when it found none); a platform campaign is its IC with whether it has
\* ended.  Addresses and ICs are short strings here.

NoIc == "null"

OnChain(address, ic) == [address |-> address, ic |-> ic]

Listing(ic, ended) == [ic |-> ic, ended |-> ended]

\* What discovery and getIntelligentContract can return for a run.
OnChainPool ==
    {OnChain("0xca", NoIc), OnChain("0xca", "0xi1"), OnChain("0xcb", "0xi1"),
     OnChain("0xcb", "0xi2")}

\* What fetchAllRallyCampaigns can return.
ListingPool == {Listing("0xi1", FALSE), Listing("0xi2", FALSE), Listing("0xi2", TRUE),
                Listing("0xi3", FALSE)}

\* campaign-tracker.mjs and the stats route: if (ic) handledICs.add(ic.toLowerCase()),
\* for every discovered campaign.
handledICs(onChain) == {c.ic : c \in {x \in onChain : x.ic # NoIc}}

\* The JSON tracker: new Set(feeCampaigns.map(c => c.address))
handledICsJson(onChain) == {c.address : c \in onChain}

\* The platform campaigns a program lists as free: not ended and not
\* handled.
FreeOf(by, onChain, listing) ==
    LET handled == IF by = "json" THEN handledICsJson(onChain) ELSE handledICs(onChain)
    IN {c.ic : c \in {x \in listing : ~x.ended /\ x.ic \notin handled}}

\* const meta = (ic && rallyByIC[ic]) ?? null: the platform campaigns that
\* are the metadata of a fee campaign.
FeeOf(onChain, listing) ==
    {c.ic : c \in {x \in onChain : x.ic # NoIc /\ \E l \in listing : l.ic = x.ic}}

NoLists == [by |-> "none", onChain |-> {}, listing |-> {}, fee |-> {}, free |-> {}]

\* A program lists its fee and free campaigns.
Partition(by, onChain, listing) ==
    /\ lists' = [by |-> by, onChain |-> onChain, listing |-> listing,
                 fee |-> FeeOf(onChain, listing), free |-> FreeOf(by, onChain, listing)]
    /\ UNCHANGED <<statsVars, discVars, runVars, metricVars, proc, mon>>

\* The tracker processes that can run at once.
Procs == {1, 2}

\* A process that has not started main.
NoProc == [pc |-> "idle", loaded |-> EmptyState, seen |-> 0, rank |-> 0,
           saved |-> EmptyState]

----------------------------------------------------------------------------
\* The gas monitor.  A transaction of a wallet's address is its block
\* number (0 while it is pending: block_number is null) and whether the
\* wallet is its recipient.

\* Most transactions of the two wallets together.
MaxGasTxs == 3

\* Most runs of the monitor.
MaxGasRuns == 3

\* Object.keys(WALLETS)
WalletKeys == {"base", "zksync"}

GasTx(block, inbound) == [block |-> block, inbound |-> inbound]

MaxOf(S) == CHOOSE x \in S : \A y \in S : y <= x

\* The highest block that holds a transaction of the wallet.
TopBlock(k) == MaxOf({0} \cup {mon.chain[k][i].block : i \in DOMAIN mon.chain[k]})

GasTxCount == Len(mon.chain["base"]) + Len(mon.chain["zksync"])

\* Reports again the transactions of the last block seen.
checkChain_Inclusive(txList, lastBlock) ==
    LET newTxs == {i \in DOMAIN txList : txList[i].block >= lastBlock /\ txList[i].inbound}
    IN [newTxs |-> newTxs,
        maxBlock |-> MaxOf({lastBlock} \cup {txList[i].block : i \in newTxs})]

\* checkChain(key, wallet, lastBlock) on what fetchTxs returned; the new
\* transactions are named by their place in the list.
checkChain(txList, lastBlock) ==
    LET newTxs == {i \in DOMAIN txList : txList[i].block > lastBlock /\ txList[i].inbound}
    IN [newTxs |-> newTxs,
        maxBlock |-> MaxOf({lastBlock} \cup {txList[i].block : i \in newTxs})]

\* The monitor before its first run: no state file, loadState gives
\* lastBlock 0 for both chains.
NoMon ==
    [chain  |-> [k \in WalletKeys |-> <<>>],
     state  |-> [k \in WalletKeys |-> 0],
     before |-> [k \in WalletKeys |-> 0],
     failed |-> {},
     new    |-> [k \in WalletKeys |-> {}],
     seen   |-> [k \in WalletKeys |-> {}],
     runs   |-> 0]

\* A transaction from or to a wallet is sent: it is pending, or it is
\* mined in the wallet's latest block or in a later one.
Send(k, inbound, mined, later) ==
    /\ GasTxCount < MaxGasTxs
    /\ LET block == IF ~mined THEN 0 ELSE IF later \/ TopBlock(k) = 0 THEN TopBlock(k) + 1
                                                                     ELSE TopBlock(k)
       IN mon' = [mon EXCEPT !.chain[k] = Append(@, GasTx(block, inbound))]
    /\ UNCHANGED <<statsVars, discVars, runVars, metricVars, lists, proc>>

\* A pending transaction is mined in a new block.
Mine(k, i) ==
    /\ i \in DOMAIN mon.chain[k]
    /\ mon.chain[k][i].block = 0
    /\ mon' = [mon EXCEPT !.chain[k][i].block = TopBlock(k) + 1]
    /\ UNCHANGED <<statsVars, discVars, runVars, metricVars, lists, proc>>

\* A run of the monitor's main; fetchTxs throws for the wallets in failing.
\* seen collects what the runs before this one reported as new.
Monitor(failing) ==
    /\ mon.runs < MaxGasRuns
    /\ LET result == [k \in WalletKeys |-> checkChain(mon.chain[k], mon.state[k])]
       IN mon' = [mon EXCEPT
                     !.state  = [k \in WalletKeys |->
                                    IF k \in failing THEN @[k] ELSE result[k].maxBlock],
                     !.before = mon.state,
                     !.failed = failing,
                     !.new    = [k \in WalletKeys |->
                                    IF k \in failing THEN {} ELSE result[k].newTxs],
                     !.seen   = [k \in WalletKeys |-> @[k] \cup mon.new[k]],
                     !.runs   = @ + 1]
    /\ UNCHANGED <<statsVars, discVars, runVars, metricVars, lists, proc>>

ExtraIdle ==
    /\ lists = NoLists
    /\ proc = [p \in Procs |-> NoProc]
    /\ mon = NoMon

----------------------------------------------------------------------------
\* The tracker's runs and their environment

\* Most runs of main.
MaxRuns == 3

\* Most events around the runs: steps of the clock and transactions on the
\* chain.
MaxEvents == 3

\* The clock at the start; block timestamps and Date.now() are positive.
StartTime == 100

\* How long the environment waits in one step: five hours, a day, seven
\* days, nine days.
TimeSteps == {2, DAY_MS, 7 * DAY_MS, 9 * DAY_MS}

\* The prices the feed returns; on failure getEthPrice returns the fallback.
Prices == {FALLBACK_PRICE, 3000}

TotalPaid == SumOver(CampaignSet, [c \in CampaignSet |-> Len(ledger[c])])

TotalSubs == SumOver(FreeSet, [f \in FreeSet |-> platform[f].subs])

\* A free campaign the platform does not list.
NotListed == [listed |-> FALSE, users |-> 0, subs |-> 0, at |-> 0]

\* Time passes; the output of the last run is gone.
Pass(d) ==
    /\ ticks + TotalPaid + TotalSubs < MaxEvents
    /\ now' = now + d
    /\ ticks' = ticks + 1
    /\ report' = NoReport
    /\ UNCHANGED <<ledger, stateFile, ranAt, runs, platform, reportedNew, statsVars, discVars, metricVars, extraVars>>

\* A wallet sends a non-zero value to a campaign contract; the transaction
\* succeeds or reverts.
Pay(c, w, status) ==
    /\ ticks + TotalPaid + TotalSubs < MaxEvents
    /\ ledger' = [ledger EXCEPT ![c] = Append(@, Tx(c, w, 1, status, now))]
    /\ report' = NoReport
    /\ UNCHANGED <<now, stateFile, ranAt, runs, ticks, platform, reportedNew, statsVars, discVars, metricVars, extraVars>>

\* A user submits to a free campaign, which the platform lists from then
\* on; the user is new to the campaign or not.
Submit(f, newUser) ==
    /\ ticks + TotalPaid + TotalSubs < MaxEvents
    /\ platform' = [platform EXCEPT ![f] =
                       [listed |-> TRUE,
                        users |-> IF newUser \/ @.users = 0 THEN @.users + 1 ELSE @.users,
                        subs |-> @.subs + 1,
                        at |-> now]]
    /\ report' = NoReport
    /\ UNCHANGED <<now, ledger, stateFile, ranAt, runs, ticks, reportedNew, statsVars, discVars, metricVars, extraVars>>

\* The state file is overwritten with text that is not JSON (a write cut
\* short, an edit by hand).
Corrupt ==
    /\ stateFile.file # "corrupt"
    /\ stateFile' = CorruptState
    /\ report' = NoReport
    /\ UNCHANGED <<now, ledger, ranAt, runs, ticks, platform, reportedNew, statsVars, discVars, metricVars, extraVars>>

\* What the explorer returns for a campaign's transactions: all of them, or
\* all but the newest (an index that lags or a reorganized block).
Returned(c, outcome) ==
    IF outcome = "stale" /\ ledger[c] # <<>>
    THEN SubSeq(ledger[c], 1, Len(ledger[c]) - 1)
    ELSE ledger[c]

\* The campaigns of S in discovery order.
RECURSIVE InOrder(_, _)
InOrder(camps, S) ==
    IF camps = <<>> THEN <<>>
    ELSE (IF Head(camps) \in S THEN <<Head(camps)>> ELSE <<>>) \o InOrder(Tail(camps), S)

\* What a run prints as new success value of campaign c: the (+$...) of its
\* row, nothing for a campaign it has no row for.
PrintedNew(rep, c) ==
    SumOver({i \in DOMAIN rep.totals.deltas : rep.totals.deltas[i].campaign = c},
            [i \in DOMAIN rep.totals.deltas |-> rep.totals.deltas[i].newSuccessEth])

\* What the platform answers about the free campaigns; subsOk tells
\* whether fetchRallySubmissions returns or throws.
Answered(subsOk) ==
    [f \in FreeSet |-> [listed |-> platform[f].listed, ok |-> subsOk,
                        users |-> platform[f].users, subs |-> platform[f].subs]]

\* One run of main in which fetchAllRallyCampaigns returns.  found are the
\* campaigns whose factory logs were fetched, outcome[c] is "ok", "stale"
\* or "fail" (the transaction fetch threw), subsOk tells whether the
\* submissions of the free campaigns could be fetched.
Run(price, found, outcome, subsOk) ==
    /\ now > ranAt
    /\ runs < MaxRuns
    /\ DOMAIN outcome = found
    /\ LET fetched == [c \in {x \in found : outcome[x] # "fail"} |-> Returned(c, outcome[c])]
           m       == MainResult(stateFile, price, InOrder(Campaigns, found), fetched,
                                 Answered(subsOk), now)
       IN /\ stateFile' = m.saved
          /\ report' = m.report
          /\ reportedNew' = [c \in CampaignSet |-> reportedNew[c] + PrintedNew(m.report, c)]
    /\ ranAt' = now
    /\ runs' = runs + 1
    /\ UNCHANGED <<now, ledger, ticks, platform, statsVars, discVars, metricVars, extraVars>>

\* A run in which loadState or fetchAllRallyCampaigns throws: main
\* rejects, the process exits with code 1 and nothing is saved.
RunFatal ==
    /\ now > ranAt
    /\ runs < MaxRuns
    /\ LET m == FatalResult(IF loadState(stateFile).thrown THEN "state" ELSE "listing",
                            stateFile, <<>>, Answered(TRUE), now)
       IN /\ stateFile' = m.saved
          /\ report' = m.report
    /\ ranAt' = now
    /\ runs' = runs + 1
    /\ UNCHANGED <<now, ledger, ticks, platform, reportedNew, statsVars, discVars, metricVars, extraVars>>

\* The processes that have written the state file.
Written == {p \in Procs : proc[p].pc = "done"}

\* const state = loadState(), awaited on from here: the process holds
\* what the file was when it started.
Begin(p) ==
    /\ proc[p].pc = "idle"
    /\ proc' = [proc EXCEPT ![p] = [pc |-> "loaded", loaded |-> stateFile,
                                    seen |-> Cardinality(Written), rank |-> 0,
                                    saved |-> EmptyState]]
    /\ UNCHANGED <<statsVars, discVars, runVars, metricVars, lists, mon>>

\* Reads the file again before saving.
InMemory_Fresh(p) == stateFile

\* The state object main works on and saves.
InMemory(p) == proc[p].loaded

\* The rest of main in a process: the fetches, the report, and
\* addSnapshot and saveState on the object loaded at the start.
Finish(p, price) ==
    /\ proc[p].pc = "loaded"
    /\ LET found   == {CampaignOne}
           fetched == [c \in found |-> Returned(c, "ok")]
           m       == MainResult(InMemory(p), price, InOrder(Campaigns, found), fetched,
                                 Answered(TRUE), now)
       IN /\ stateFile' = m.saved
          /\ report' = m.report
          /\ reportedNew' = [c \in CampaignSet |-> reportedNew[c] + PrintedNew(m.report, c)]
          /\ proc' = [proc EXCEPT ![p] = [@ EXCEPT !.pc = "done",
                                                   !.rank = Cardinality(Written) + 1,
                                                   !.saved = m.saved]]
    /\ UNCHANGED <<now, ledger, ranAt, runs, ticks, platform, statsVars, discVars,
                   metricVars, lists, mon>>

RunIdle ==
    /\ now = StartTime
    /\ ledger = [c \in CampaignSet |-> <<>>]
    /\ stateFile = EmptyState
    /\ report = NoReport
    /\ ranAt = 0
    /\ runs = 0
    /\ ticks = 0
    /\ platform = [f \in FreeSet |-> NotListed]
    /\ reportedNew = [c \in CampaignSet |-> 0]

\* The aggregation alone, over every list of up to MaxTxs transactions.
InitStats ==
    /\ campAddr \in {AddrAl, AddrA}
    /\ txs = <<>>
    /\ oc = NoStats
    /\ DiscIdle
    /\ RunIdle
    /\ MetricIdle
    /\ ExtraIdle

NextStats ==
    \/ \E t \in TxPool : FetchTx(t)
    \/ Aggregate

SpecStats == InitStats /\ [][NextStats]_vars

\* Discovery alone, over every placement of up to MaxLogs logs.
InitDisc == DiscIdle /\ StatsIdle /\ RunIdle /\ MetricIdle /\ ExtraIdle

NextDisc ==
    \/ \E f \in FactorySet, id \in LogIds : AddLog(f, id)
    \/ \E by \in {"tracker", "json", "route"}, fetched \in SUBSET FactorySet :
          Discover(by, fetched)

SpecDisc == InitDisc /\ [][NextDisc]_vars

\* Discovery over logs that include creation logs without a usable topic.
NextAddr ==
    \/ \E f \in FactorySet, id \in {1, 5} \cup MalformedIds : AddLog(f, id)
    \/ \E by \in {"tracker", "json", "route"}, fetched \in SUBSET FactorySet :
          Discover(by, fetched)

SpecAddr == InitDisc /\ [][NextAddr]_vars

\* The campaign loop alone, over every list of up to MaxCamps campaigns.
InitRows == RunIdle /\ StatsIdle /\ DiscIdle /\ MetricIdle /\ ExtraIdle

NextRows ==
    \/ \E c \in CampPool : AddCampaign(c)
    \/ \E by \in Programs : Summarize(by)

SpecRows == InitRows /\ [][NextRows]_vars

\* The submission figures alone, over every list of up to MaxSubs
\* submissions.
InitSubs == RunIdle /\ StatsIdle /\ DiscIdle /\ MetricIdle /\ ExtraIdle

NextSubs ==
    \/ \E sub \in SubPool : FetchSubmission(sub)
    \/ Score

SpecSubs == InitSubs /\ [][NextSubs]_vars

\* getAllPages alone, against every upstream.
InitPages == RunIdle /\ StatsIdle /\ DiscIdle /\ MetricIdle /\ ExtraIdle

NextPages ==
    \/ \E by \in Programs : \E maxPages \in MaxPagesOf(by) : CallPages(by, maxPages)
    \/ \E items \in PageSizes, next \in BOOLEAN : FetchPage(items, next)
    \/ FailPage

SpecPages == InitPages /\ [][NextPages]_vars

\* The two lists alone, over every discovery and platform listing.
NextLists ==
    \E by \in {"tracker", "json", "route2"} :
        \E onChain \in SUBSET OnChainPool, listing \in SUBSET ListingPool :
            Partition(by, onChain, listing)

SpecLists == InitPages /\ [][NextLists]_vars

\* The tracker's runs.
Init == RunIdle /\ StatsIdle /\ DiscIdle /\ MetricIdle /\ ExtraIdle

\* What the transaction fetches of one run can do, per campaign found.
Outcomes(found) == [found -> {"ok", "stale", "fail"}]

\* Runs over both campaigns with every outcome of the fetches, a day apart.
Next ==
    \/ \E d \in {DAY_MS} : Pass(d)
    \/ \E c \in CampaignSet, w \in {W1, W2}, status \in {"ok", "error"} : Pay(c, w, status)
    \/ \E found \in SUBSET CampaignSet : \E outcome \in Outcomes(found) :
          Run(FALLBACK_PRICE, found, outcome, TRUE)
    \/ RunFatal

Spec == Init /\ [][Next]_vars

\* Runs over one campaign whose fetches succeed, at every distance and price.
NextArr ==
    \/ \E d \in TimeSteps : Pass(d)
    \/ \E status \in {"ok", "error"} : Pay(CampaignOne, W1, status)
    \/ \E price \in Prices : Run(price, {CampaignOne}, [c \in {CampaignOne} |-> "ok"], TRUE)
    \/ RunFatal

SpecArr == Init /\ [][NextArr]_vars

\* Two processes started by overlapping schedules, each running main once
\* on the same state file.
NextRace ==
    \/ \E d \in TimeSteps : Pass(d)
    \/ \E status \in {"ok", "error"} : Pay(CampaignOne, W1, status)
    \/ \E p \in Procs : Begin(p)
    \/ \E p \in Procs, price \in Prices : Finish(p, price)

SpecRace == Init /\ [][NextRace]_vars

\* The gas monitor alone.
NextMon ==
    \/ \E k \in WalletKeys, inbound, mined, later \in BOOLEAN : Send(k, inbound, mined, later)
    \/ \E k \in WalletKeys, i \in 1..MaxGasTxs : Mine(k, i)
    \/ \E failing \in SUBSET WalletKeys : Monitor(failing)

SpecMon == Init /\ [][NextMon]_vars

\* Runs over one fee campaign and one free campaign whose fetches succeed
\* or throw, a day apart, with a state file that can be damaged.
NextIo ==
    \/ \E d \in {DAY_MS} : Pass(d)
    \/ Pay(CampaignOne, W1, "ok")
    \/ \E f \in FreeSet, newUser \in BOOLEAN : Submit(f, newUser)
    \/ Corrupt
    \/ \E found \in SUBSET {CampaignOne} : \E outcome \in [found -> {"ok", "fail"}] :
          \E subsOk \in BOOLEAN : Run(FALLBACK_PRICE, found, outcome, subsOk)
    \/ RunFatal

SpecIo == Init /\ [][NextIo]_vars

\* Runs over one campaign a tenth of a day or a day after a payment.
NextRate ==
    \/ \E d \in {1, DAY_MS} : Pass(d)
    \/ \E status \in {"ok", "error"} : Pay(CampaignOne, W1, status)
    \/ Run(FALLBACK_PRICE, {CampaignOne}, [c \in {CampaignOne} |-> "ok"], TRUE)

SpecRate == Init /\ [][NextRate]_vars

----------------------------------------------------------------------------
\* Claims about the aggregation

UpperChar(c) ==
    CASE c = "a" -> "A" [] c = "b" -> "B" [] c = "c" -> "C"
      [] c = "d" -> "D" [] c = "e" -> "E" [] c = "f" -> "F"
      [] c = "x" -> "X"
      [] OTHER -> c

\* Two strings that differ in letter case at most.
SameIgnoringCase(a, b) ==
    /\ Len(a) = Len(b)
    /\ \A i \in 1..Len(a) : UpperChar(a[i]) = UpperChar(b[i])

\* Positions of the transactions sent to the campaign with a non-zero value.
Eligible ==
    { i \in 1..Len(txs) :
        /\ txs[i].value # NoNum /\ txs[i].value > 0
        /\ txs[i].to # NoStr /\ SameIgnoringCase(txs[i].to, campAddr) }

EligibleFailed == { i \in Eligible : txs[i].status = "error" }

EligibleSuccess == Eligible \ EligibleFailed

ValueAt == [i \in 1..Len(txs) |-> txs[i].value]

\* C1: a transaction is counted in exactly one of successTxs / failedTxs when
\* it is addressed to the campaign (in any letter case) with a non-zero
\* value, and in neither otherwise; status 'error' goes to the failed
\* counters and any other status to the success counters, so the counts add
\* up to the number of eligible transactions and the wei totals to the sum
\* of their values; the four-transaction example yields 1 / 1 / 1 / 100 / 50.
C1_Classification ==
    oc # NoStats =>
        /\ oc.successTxs = Cardinality(EligibleSuccess)
        /\ oc.failedTxs = Cardinality(EligibleFailed)
        /\ oc.successTxs + oc.failedTxs = Cardinality(Eligible)
        /\ oc.successWei = SumOver(EligibleSuccess, ValueAt)
        /\ oc.failedWei = SumOver(EligibleFailed, ValueAt)
        /\ oc.successWei + oc.failedWei = SumOver(Eligible, ValueAt)
        /\ (txs = ExampleTxs =>
              /\ oc.participants = 1 /\ oc.successTxs = 1 /\ oc.failedTxs = 1
              /\ oc.successWei = 100 /\ oc.failedWei = 50)

\* The example's list has been aggregated.
C1_Witness ==
    /\ oc # NoStats
    /\ txs = ExampleTxs
    /\ Cardinality(Eligible) = 2
    /\ oc.successWei = 100

SenderAt(i) == IF txs[i].from = NoStr THEN <<>> ELSE txs[i].from

\* Positions of eligible successful transactions, one per distinct sender.
FirstOfSender ==
    { i \in EligibleSuccess :
        \A j \in EligibleSuccess :
            SameIgnoringCase(SenderAt(j), SenderAt(i)) => i <= j }

\* Eligible successful transactions that carry a timestamp.
Timed == { i \in EligibleSuccess : txs[i].timestamp # NoNum }

\* C2: participants is the number of distinct senders of eligible successful
\* transactions (a sender with only reverted transactions is not counted, a
\* sender with several successes is counted once), so participants <=
\* successTxs; firstTs is the minimum timestamp over the eligible successful
\* transactions and null when there are none.
C2_Participants ==
    oc # NoStats =>
        /\ oc.participants = Cardinality(FirstOfSender)
        /\ oc.participants <= oc.successTxs
        /\ (EligibleSuccess = {} => oc.firstTs = NoNum)
        /\ (Timed = {} => oc.firstTs = NoNum)
        /\ (Timed # {} =>
              /\ \E i \in Timed : oc.firstTs = txs[i].timestamp
              /\ \A i \in Timed : oc.firstTs <= txs[i].timestamp)

\* One sender succeeded twice, another only reverted, and the earliest
\* success is not the first in the list.
C2_Witness ==
    /\ oc # NoStats
    /\ oc.participants = 1 /\ oc.successTxs = 2
    /\ \E i \in EligibleFailed :
          \A j \in EligibleSuccess : ~SameIgnoringCase(SenderAt(j), SenderAt(i))
    /\ \E i, j \in Timed : i < j /\ txs[j].timestamp < txs[i].timestamp
    /\ oc.firstTs = 1

----------------------------------------------------------------------------
\* Claims about the persisted state

\* A run of main has just reached its end.
Completed == report.status = "done"

\* The step is a run of main that reaches its end.
CompletesRun == report'.status = "done" /\ runs' = runs + 1

\* The counters a state file holds for a campaign, 0 where it holds none.
Persisted(file, c) ==
    LET chain == file.chains[ChainOf(c)]
    IN IF chain.present /\ c \in DOMAIN chain.campaigns
       THEN chain.campaigns[c]
       ELSE [participants |-> 0, successTxs |-> 0, successWei |-> 0, failedWei |-> 0]

\* C3: for every campaign a run reports on, the reported delta of the
\* participant count and of the success value is max(0, current - value
\* persisted before the run), the persisted value being 0 for a campaign
\* with no entry; so it is never negative, and it is 0 when the run
\* observes a smaller total than the persisted one.
C3_Deltas ==
    Completed =>
        \A i \in DOMAIN report.totals.deltas :
            LET d      == report.totals.deltas[i]
                before == Persisted(report.loaded, d.campaign)
                dp     == d.oc.participants - before.participants
                dv     == d.oc.successWei - before.successWei
            IN /\ d.newParticipants = (IF dp > 0 THEN dp ELSE 0)
               /\ d.newSuccessEth = (IF dv > 0 THEN dv ELSE 0)
               /\ d.newParticipants >= 0
               /\ d.newSuccessEth >= 0

\* A run has observed less than what the previous run persisted, and
\* reports no change.
C3_Witness ==
    /\ Completed
    /\ \E i \in DOMAIN report.totals.deltas :
          LET d      == report.totals.deltas[i]
              before == Persisted(report.loaded, d.campaign)
          IN /\ d.oc.participants < before.participants
             /\ d.oc.successWei < before.successWei
             /\ d.newParticipants = 0
             /\ d.newSuccessEth = 0

\* Every transaction list the run fetched is the chain's whole history of
\* the campaign.
ObservedCurrent ==
    \A i \in DOMAIN report'.totals.deltas :
        LET d == report'.totals.deltas[i]
        IN d.oc = getCampaignOnChainStats(d.campaign, ledger[d.campaign])

\* C4: across completed runs the persisted counters of a campaign
\* (participants, successTxs, successWei, failedWei) never decrease: what a
\* run leaves persisted is at least what was persisted before it.  Stated
\* for the runs whose fetches return the whole history, where the chain
\* itself retracts nothing.
C4_Monotone ==
    [][CompletesRun /\ ObservedCurrent =>
          \A c \in CampaignSet :
              /\ Persisted(stateFile', c).participants >= Persisted(stateFile, c).participants
              /\ Persisted(stateFile', c).successTxs >= Persisted(stateFile, c).successTxs
              /\ Persisted(stateFile', c).successWei >= Persisted(stateFile, c).successWei
              /\ Persisted(stateFile', c).failedWei >= Persisted(stateFile, c).failedWei]_vars

\* C5: after a run that reaches its end, the persisted series holds no
\* snapshot taken more than 8 days before the time of that run.
C5_Retention ==
    Completed =>
        \A i \in DOMAIN stateFile.snapshots :
            report.at - stateFile.snapshots[i].ts <= 8 * DAY_MS

\* The run found a snapshot older than 8 days in the file it loaded.
C5_Witness ==
    /\ Completed
    /\ \E i \in DOMAIN report.loaded.snapshots :
          report.at - report.loaded.snapshots[i].ts > 8 * DAY_MS

SnapshotTimes(file) == {file.snapshots[i].ts : i \in DOMAIN file.snapshots}

C6_NoDuplicate == Cardinality(SnapshotTimes(stateFile)) = Len(stateFile.snapshots)

\* The indices of the snapshots of the file that are no older than 8 days.
Retained == {i \in DOMAIN stateFile.snapshots : now - stateFile.snapshots[i].ts <= 8 * DAY_MS}

\* C6: the persisted series never holds two snapshots of the same
\* timestamp, and a run that reaches its end appends exactly one snapshot
\* {ts, totalFeesUsd} and keeps, unchanged and in order, every snapshot
\* still inside the 8-day window.
C6_AppendOnly ==
    /\ []C6_NoDuplicate
    /\ [][CompletesRun =>
            LET old == stateFile.snapshots
                new == stateFile'.snapshots
            IN /\ Len(new) = Cardinality(Retained) + 1
               /\ new[Len(new)] = [ts |-> now, totalFeesUsd |-> report'.totalRevenue]
               /\ \A i \in Retained : \E j \in 1..(Len(new) - 1) : new[j] = old[i]
               /\ \A i, j \in 1..(Len(new) - 1) : i < j => new[i].ts < new[j].ts]_vars

\* A run loaded a snapshot inside the window and one outside it, and left
\* the former and its own.
C6_Witness ==
    /\ Completed
    /\ Len(stateFile.snapshots) = 2
    /\ \E i, j \in DOMAIN report.loaded.snapshots :
          /\ report.at - report.loaded.snapshots[i].ts > 8 * DAY_MS
          /\ report.at - report.loaded.snapshots[j].ts <= 8 * DAY_MS
          /\ stateFile.snapshots[1] = report.loaded.snapshots[j]

----------------------------------------------------------------------------
\* Claims about the ARR estimate

\* The snapshots stored when the run started.
Stored == report.loaded.snapshots

\* How far a snapshot lies from the run's time less msAgo.
Distance(snap, msAgo) == Abs(snap.ts - (report.at - msAgo))

\* The stored snapshots closest to the run's time less msAgo.
ClosestStored(msAgo) ==
    {i \in DOMAIN Stored :
        \A j \in DOMAIN Stored : Distance(Stored[i], msAgo) <= Distance(Stored[j], msAgo)}

\* A stored snapshot lies within 20 % of the window of the run's time less
\* msAgo.
Near(msAgo) == \E i \in DOMAIN Stored : Distance(Stored[i], msAgo) * 5 <= msAgo

\* The window method is available: the closest stored snapshot is within
\* tolerance and the revenue has grown since.
WindowAvailable(msAgo) ==
    \E i \in ClosestStored(msAgo) :
        /\ Distance(Stored[i], msAgo) * 5 <= msAgo
        /\ report.totalRevenue > Stored[i].totalFeesUsd

\* The since-launch method is available: there is revenue, and the
\* earliest first success is at least half a day old.
SinceLaunchValid ==
    /\ report.totals.earliestTs # NoNum
    /\ report.totalRevenue > 0
    /\ (report.at - report.totals.earliestTs) * 2 >= DAY_MS

\* This run's revenue delta is positive.
DeltaPositive == report.totals.grandNewSuccessEth > 0

FirstAvailable ==
    IF SinceLaunchValid THEN "since launch"
    ELSE IF WindowAvailable(DAY_MS) THEN "24h"
    ELSE IF WindowAvailable(7 * DAY_MS) THEN "7d"
    ELSE IF DeltaPositive THEN "1h est"
    ELSE "none"

\* C7: the estimate a run reports is that of the first available method in
\* the order since launch, 24h window, 7d window, 1h fallback; the fallback
\* is reported only when none of the other three is available and this
\* run's revenue delta is positive.
C7_Cascade == Completed => report.arr.method = FirstAvailable

\* C8: when no since-launch estimate is valid and no stored snapshot lies
\* near the run's time less 24h, but one lies within tolerance of the run's
\* time less 7d with less revenue than now, the run reports the 7d
\* estimate, (revenue now - revenue of that snapshot) / 7 per day; also
\* when that snapshot is the only one stored.
C8_SevenDay ==
    (Completed /\ ~SinceLaunchValid /\ ~Near(DAY_MS) /\ WindowAvailable(7 * DAY_MS)) =>
        \E i \in ClosestStored(7 * DAY_MS) :
            report.arr = ArrPart("7d", report.totalRevenue - Stored[i].totalFeesUsd, 7)

----------------------------------------------------------------------------
\* Claims about discovery

\* The logs the last discovery fetched, as a set.
FetchedLogs ==
    UNION { { facLogs[f][i] : i \in 1..Len(facLogs[f]) } : f \in disc.fetched }

RecognizedTopics ==
    IF disc.by = "tracker" THEN {CAMPAIGN_CREATED_TOPIC}
    ELSE {CAMPAIGN_CREATED_TOPIC, CAMPAIGN_CREATED_TOPIC_2}

\* The creation logs among the fetched ones that name a non-zero address.
CreationLogs ==
    { id \in FetchedLogs :
        /\ Topic0(LogOfId(id)) \in RecognizedTopics
        /\ LogAddress(LogOfId(id)) # ZeroAddress }

ResultAddresses == { disc.result[i].address : i \in 1..Len(disc.result) }

\* C9: the list discovery returns holds every address at most once, however
\* many logs or factories mention it, and its address set is determined by
\* the set of fetched logs alone; a second discovery over the unchanged logs
\* returns the same set of addresses.
C9_Discovered ==
    disc.by # "none" =>
        /\ \A i, j \in 1..Len(disc.result) :
              i # j => disc.result[i].address # disc.result[j].address
        /\ ResultAddresses = { LogAddress(LogOfId(id)) : id \in CreationLogs }

C9_Idempotent ==
    /\ []C9_Discovered
    /\ [][(disc.by # "none" /\ disc'.by = disc.by /\ facLogs' = facLogs)
            => { disc'.result[i].address : i \in 1..Len(disc'.result) } = ResultAddresses]_vars

\* Discovery ran twice over logs in which both factories mention the same
\* address.
C9_Witness ==
    /\ disc.runs = 2
    /\ disc.fetched = FactorySet
    /\ \E i \in 1..Len(facLogs[Factories[1]]), j \in 1..Len(facLogs[Factories[2]]) :
          /\ facLogs[Factories[1]][i] \in CreationLogs
          /\ facLogs[Factories[2]][j] \in CreationLogs
          /\ LogAddress(LogOfId(facLogs[Factories[1]][i]))
               = LogAddress(LogOfId(facLogs[Factories[2]][j]))
    /\ Cardinality(ResultAddresses) = 2

\* The fetched logs in the order the loops visit them.
VisitOrder ==
    (IF Factories[1] \in disc.fetched THEN facLogs[Factories[1]] ELSE <<>>)
    \o (IF Factories[2] \in disc.fetched THEN facLogs[Factories[2]] ELSE <<>>)

\* Positions in VisitOrder of the creation logs of address a.
Mentions(a) ==
    { k \in 1..Len(VisitOrder) :
        /\ VisitOrder[k] \in CreationLogs
        /\ LogAddress(LogOfId(VisitOrder[k])) = a }

WithIc(a) == { k \in Mentions(a) : LogIc(LogOfId(VisitOrder[k])) # NoStr }

\* C10: in discoverOnChainCampaigns the secondary address of a campaign is
\* the first non-null one seen for its address in log order across the
\* factories: a later different one never replaces it and a later null one
\* never clears it.
C10_FirstIc ==
    disc.by = "route" =>
        \A i \in 1..Len(disc.result) :
            LET a == disc.result[i].address
            IN IF WithIc(a) = {} THEN disc.result[i].ic = NoStr
               ELSE \E k \in WithIc(a) :
                      /\ \A m \in WithIc(a) : k <= m
                      /\ disc.result[i].ic = LogIc(LogOfId(VisitOrder[k]))

\* An address was seen first without a secondary address, then with one,
\* then with a different one or with none again.
C10_Witness ==
    /\ disc.by = "route"
    /\ \E i \in 1..Len(disc.result) :
          LET a == disc.result[i].address
          IN /\ Cardinality(Mentions(a)) = 3
             /\ \E k \in WithIc(a), m \in Mentions(a) :
                   /\ m < k
                   /\ m \notin WithIc(a)
                   /\ disc.result[i].ic = LogIc(LogOfId(VisitOrder[k]))
                   /\ \E n \in Mentions(a) :
                         n > k /\ LogIc(LogOfId(VisitOrder[n])) # disc.result[i].ic

----------------------------------------------------------------------------
\* Claims about the campaign loop

\* A program has run its campaign loop.
Summarized == summary.by # "none"

\* onChainParticipants - platformUsers, floored at zero.
FlooredGhost(c) ==
    IF c.participants > c.rallyUsers THEN c.participants - c.rallyUsers ELSE 0

\* C11: the ghost-wallet count of a campaign is max(0, participants -
\* platform users), and the ghost-wallet figure of the run is the sum of
\* these floored counts over the campaigns of the run.
C11_GhostFloor ==
    Summarized =>
        /\ \A i \in DOMAIN summary.rows :
              summary.rows[i].ghostWallets # NoNum =>
                  summary.rows[i].ghostWallets = FlooredGhost(campList[i])
        /\ summary.ghostWallets =
              SumOver(DOMAIN campList, [i \in DOMAIN campList |-> FlooredGhost(campList[i])])

\* C12: a campaign with 2 on-chain participants and 5 platform users is
\* flagged by campaign-tracker.mjs as a funnel leak, and not as ghost
\* wallets.
C12_FunnelLeak ==
    summary.by = "tracker" =>
        \A i \in DOMAIN summary.rows :
            (campList[i].participants = 2 /\ campList[i].rallyUsers = 5) =>
                /\ "funnel leak" \in summary.rows[i].issues
                /\ "ghost txs" \notin summary.rows[i].issues


\* C16: a campaign is left out of the per-campaign output exactly when it
\* has no participants, no platform users and no transactions, successful
\* or failed; a campaign with nothing but reverted transactions is reported.
C16_DroppedIff ==
    Summarized =>
        \A i \in DOMAIN summary.rows :
            summary.rows[i].reported <=>
                ~(/\ campList[i].participants = 0
                  /\ campList[i].rallyUsers = 0
                  /\ campList[i].successTxs = 0
                  /\ campList[i].failedTxs = 0)

\* C19: for a campaign with successful transactions the approval rate is
\* approved / successTxs, and the campaign is flagged as low-approval
\* exactly when the rate is below one half, a rate of 0 included.
C19_LowApproval ==
    \A i \in DOMAIN summary.rows :
        campList[i].successTxs > 0 =>
            /\ summary.by = "json" =>
                  summary.rows[i].approvalRate =
                      [num |-> campList[i].rallyApproved, den |-> campList[i].successTxs]
            /\ summary.by = "tracker" =>
                  ("low approval" \in summary.rows[i].issues
                      <=> campList[i].rallyApproved * 2 < campList[i].successTxs)

----------------------------------------------------------------------------
\* Claims about the submissions

\* The submissions whose score is not zero, and the sum of their scores.
NonZero == {i \in DOMAIN subs : ScoreOf(subs[i].atemporalPoints) # 0}

NonZeroTotal == SumOver(NonZero, [i \in DOMAIN subs |-> ScoreOf(subs[i].atemporalPoints)])

\* C18: the average score is the mean of the scores of exactly the
\* submissions whose score is not zero, and 0 when there is none.
C18_AverageScore ==
    scored # NoScored =>
        IF NonZero = {}
        THEN scored.avgScore.num = 0
        ELSE scored.avgScore.num * Cardinality(NonZero)
                 = NonZeroTotal * scored.avgScore.den

----------------------------------------------------------------------------
\* Claims about getAllPages

\* The bound of a call: its maxPages, the default where the program's
\* getAllPages takes none.
PageBound == IF pager.maxPages # NoNum THEN pager.maxPages ELSE DEFAULT_MAX_PAGES

\* C15: a call of getAllPages fetches at most maxPages pages, whatever the
\* upstream returns.
C15_PageBound == pager.by # "none" => pager.pages <= PageBound


----------------------------------------------------------------------------
\* Claims about the state file, the fetches and the output of a run

\* A run has ended, at the end of main or in its catch handler.
Ended == report.status # "none"

\* The file the run wrote holds the snapshot of the run.
SavedByRun ==
    /\ stateFile.file = "json"
    /\ stateFile.snapshots # <<>>
    /\ stateFile.snapshots[Len(stateFile.snapshots)].ts = report.at

\* C13: a run that finds the state file missing or corrupt proceeds from
\* the empty state (no counters, no snapshots) and does not end with a
\* fatal error because of the state file.
C13_StateFileNeverFatal ==
    (Ended /\ report.file \in {"missing", "corrupt"}) =>
        /\ report.cause # "state"
        /\ Completed =>
              /\ report.loaded.chains = EmptyState.chains
              /\ report.loaded.snapshots = <<>>

\* C14: a run in which a fetch failed still reaches its end, writes the
\* state and produces its output.
C14_FetchFailureNotFatal ==
    (Ended /\ report.failed # {}) =>
        /\ Completed
        /\ SavedByRun
        /\ report.emitted \in {"TELEGRAM_MSG", "NO_ACTIVITY"}

\* Some fee campaign has a positive delta of participants or of success
\* value against the state the run loaded.
FeeActivity ==
    \E i \in DOMAIN report.totals.deltas :
        LET d      == report.totals.deltas[i]
            before == Persisted(report.loaded, d.campaign)
        IN \/ d.oc.participants > before.participants
           \/ d.oc.successWei > before.successWei

\* Some free campaign has more users or submissions than the state the run
\* loaded.
FreeNews ==
    \E f \in FreeSet :
        /\ stateFile.freeCamps[f].present
        /\ \/ stateFile.freeCamps[f].users > report.loaded.freeCamps[f].users
           \/ stateFile.freeCamps[f].subs > report.loaded.freeCamps[f].subs

\* Nothing has been paid or submitted since the last run that reached its
\* end before this one.
SourcesUnchanged ==
    /\ report.loaded.snapshots # <<>>
    /\ LET last == report.loaded.snapshots[Len(report.loaded.snapshots)].ts
       IN /\ \A c \in CampaignSet : \A i \in DOMAIN ledger[c] : ledger[c][i].timestamp < last
          /\ \A f \in FreeSet : platform[f].listed => platform[f].at < last

\* C17: a run that reaches its end emits exactly one of TELEGRAM_MSG and
\* NO_ACTIVITY, TELEGRAM_MSG exactly when a fee campaign has a positive
\* delta against the persisted state or a free campaign has new users or
\* submissions; a run over sources unchanged since the run before emits
\* NO_ACTIVITY.
C17_Output ==
    Completed =>
        /\ report.emitted \in {"TELEGRAM_MSG", "NO_ACTIVITY"}
        /\ report.emitted = "TELEGRAM_MSG" <=> (FeeActivity \/ FreeNews)
        /\ SourcesUnchanged => report.emitted = "NO_ACTIVITY"

\* The positions of a step in the steps of the run.
At(step) == {i \in DOMAIN report.steps : report.steps[i] = step}

\* The steps that fetch from a source.
Fetches ==
    {"getEthPrice", "fetchAllRallyCampaigns", "discoverCampaigns",
     "getIntelligentContract", "getCampaignOnChainStats", "fetchRallySubmissions"}

FetchedAt == {i \in DOMAIN report.steps : report.steps[i] \in Fetches}

\* C20: a run reads the state file exactly once, before every fetch, and
\* never writes it before a fetch; a run that reaches its end writes it
\* exactly once, as its last step, after the snapshot of the run has been
\* appended.
C20_ReadOnceWriteOnce ==
    Ended =>
        /\ At("loadState") = {1}
        /\ \A w \in At("saveState") : \A i \in FetchedAt : i < w
        /\ Completed =>
              /\ At("saveState") = {Len(report.steps)}
              /\ At("addSnapshot") = {Len(report.steps) - 1}
              /\ SavedByRun

\* A run over a fee campaign and a free campaign has reached its end.
C20_Witness ==
    /\ Completed
    /\ "getCampaignOnChainStats" \in {report.steps[i] : i \in DOMAIN report.steps}
    /\ "fetchRallySubmissions" \in {report.steps[i] : i \in DOMAIN report.steps}
    /\ Len(stateFile.snapshots) = 2

----------------------------------------------------------------------------
\* Claims about snapshotDelta and fatal runs

\* What snapshotDelta returned to the run for a window.
Delivered(msAgo) == IF msAgo = DAY_MS THEN report.snap24 ELSE report.snap7d

\* The windowed estimates among the lines of the run.
WindowLines == {i \in DOMAIN report.arrParts : report.arrParts[i].method \in {"24h", "7d"}}

\* C23: snapshotDelta returns the stored snapshot closest to the run's time
\* less the window when that snapshot is within 20 % of the window, and no
\* snapshot otherwise; a windowed estimate comes only from a returned
\* snapshot with less revenue than the current total.
C23_SnapshotDelta ==
    Completed =>
        /\ \A msAgo \in {DAY_MS, 7 * DAY_MS} :
              IF Near(msAgo)
              THEN \E i \in ClosestStored(msAgo) : Delivered(msAgo) = Stored[i]
              ELSE Delivered(msAgo) = NoSnap
        /\ \A i \in WindowLines :
              LET from == IF report.arrParts[i].method = "24h"
                          THEN report.snap24 ELSE report.snap7d
              IN from # NoSnap /\ from.totalFeesUsd < report.totalRevenue

\* The step is a run of main that ends in its catch handler.
FailsRun == report'.status = "fatal" /\ runs' = runs + 1

\* C26: a run that ends with a fatal error leaves the state file as it
\* was: no counter changed, no snapshot appended, none pruned.
C26_FatalLeavesState == [][FailsRun => stateFile' = stateFile]_vars

\* A run has ended fatally on a state file with a snapshot older than eight
\* days, which is still there.
C26_Witness ==
    /\ report.status = "fatal"
    /\ report.cause = "listing"
    /\ stateFile = report.loaded
    /\ \E i \in DOMAIN stateFile.snapshots :
          report.at - stateFile.snapshots[i].ts > 8 * DAY_MS

\* C25: what the completed runs so far have printed as new success value
\* of a campaign adds up to at most the success value the latest run
\* observed for it, also when the transaction fetch failed in some runs.
C25_NeverNewTwice ==
    Completed =>
        \A i \in DOMAIN report.totals.deltas :
            reportedNew[report.totals.deltas[i].campaign]
                <= report.totals.deltas[i].oc.successWei

----------------------------------------------------------------------------
\* Further claims about discovery

\* The logs as they would be if the factories whose fetch threw had none.
LogsOfFetched == [f \in FactorySet |-> IF f \in disc.fetched THEN facLogs[f] ELSE <<>>]

\* What the program's discovery returns when every fetch succeeds on
\* those logs.
AsIfNoLogs ==
    CASE disc.by = "tracker" -> discoverCampaigns(LogsOfFetched, FactorySet)
      [] disc.by = "json"    -> discoverCampaignsJson(LogsOfFetched, FactorySet)
      [] disc.by = "route"   -> discoverOnChainCampaigns(LogsOfFetched, FactorySet)

\* C22: a factory whose log fetch fails does not fail discovery; the
\* result holds every campaign created by the factories whose logs were
\* fetched, exactly as if the failing factory had no logs.
C22_FactoryFailure ==
    disc.by # "none" =>
        /\ disc.result = AsIfNoLogs
        /\ \A id \in CreationLogs : LogAddress(LogOfId(id)) \in ResultAddresses

\* The fetch of the first factory, which has a creation log, threw, and a
\* campaign of the second factory is returned.
C22_Witness ==
    /\ disc.by # "none"
    /\ disc.fetched = {Factories[2]}
    /\ \E i \in 1..Len(facLogs[Factories[1]]) :
          /\ Topic0(LogOfId(facLogs[Factories[1]][i])) \in RecognizedTopics
          /\ LogAddress(LogOfId(facLogs[Factories[1]][i])) \notin ResultAddresses
    /\ disc.result # <<>>

LowerHex == {"0", "1", "2", "3", "4", "5", "6", "7", "8", "9", "a", "b", "c", "d", "e", "f"}

\* '0x' followed by 40 lower-case hex characters, not the zero address.
WellFormed(a) ==
    /\ Len(a) = 42
    /\ SubSeq(a, 1, 2) = Prefix0x
    /\ \A i \in 3..42 : a[i] \in LowerHex
    /\ a # ZeroAddress

\* The fetched creation logs whose first indexed topic holds fewer than 20
\* bytes.
ShortTopicLogs ==
    { id \in FetchedLogs :
        /\ Topic0(LogOfId(id)) \in RecognizedTopics
        /\ Len(Topic1(LogOfId(id))) < 42 }

\* C27: every campaign discovery returns has a well-formed address, and a
\* creation log whose first indexed topic is missing or shorter than 20
\* bytes yields no campaign.
C27_WellFormedAddress ==
    disc.by # "none" =>
        /\ \A i \in 1..Len(disc.result) : WellFormed(disc.result[i].address)
        /\ \A id \in ShortTopicLogs : LogAddress(LogOfId(id)) \notin ResultAddresses

----------------------------------------------------------------------------
\* Further claims about the campaign loop

\* The campaigns in the per-campaign output of the run.
Listed == {i \in DOMAIN summary.rows : summary.rows[i].reported}

\* C29: the totals of a run (wallets, platform users, successful and
\* failed transactions) are the sums over the campaigns listed in its
\* per-campaign output; a dropped campaign adds to none of them.
C29_TotalsOfListed ==
    Summarized =>
        /\ summary.participants = SumOver(Listed, [i \in DOMAIN campList |-> campList[i].participants])
        /\ summary.rallyUsers = SumOver(Listed, [i \in DOMAIN campList |-> campList[i].rallyUsers])
        /\ summary.successTxs = SumOver(Listed, [i \in DOMAIN campList |-> campList[i].successTxs])
        /\ summary.failedTxs = SumOver(Listed, [i \in DOMAIN campList |-> campList[i].failedTxs])

----------------------------------------------------------------------------
\* Claims about the daily rate

\* C24: the daily revenue rate of a campaign is computed exactly when its
\* age since its first successful transaction is at least a tenth of a
\* day, exactly a tenth included, and is absent for a smaller age and
\* without a successful transaction.
C24_DailyRate ==
    Completed =>
        \A i \in DOMAIN report.totals.deltas :
            LET first == report.totals.deltas[i].oc.firstTs
            IN report.rates[i] # NoDaily
                   <=> (first # NoNum /\ (report.at - first) * 10 >= DAY_MS)

----------------------------------------------------------------------------
\* Claims about the fee and the free campaigns

\* C28: no platform campaign that is the metadata of a discovered on-chain
\* campaign of the run is in the free list of the run.
C28_Disjoint == lists.fee \cap lists.free = {}

----------------------------------------------------------------------------
\* Claims about two runs at once

\* Both processes read the state file before either wrote it, and both
\* have finished.
RaceOver == \A p \in Procs : proc[p].pc = "done" /\ proc[p].seen = 0

Tss(state) == {state.snapshots[i].ts : i \in DOMAIN state.snapshots}

\* C21: when two runs on one state file both read it before either writes,
\* the file ends as what the last writer saved, with the last writer's
\* snapshot alone added to what was read: the first writer's snapshot and
\* counters are in it only where the last writer computed the same.
C21_LostUpdate ==
    RaceOver =>
        \E p, q \in Procs :
            /\ proc[p].rank = 1 /\ proc[q].rank = 2
            /\ stateFile = proc[q].saved
            /\ proc[q].loaded = proc[p].loaded
            /\ Len(stateFile.snapshots) = Len(proc[q].loaded.snapshots) + 1

\* The race is over and the file has lost the snapshot and the campaign
\* counters the first writer saved.
C21_Witness ==
    /\ RaceOver
    /\ \E p \in Procs :
          /\ proc[p].rank = 1
          /\ Tss(proc[p].saved) \cap Tss(stateFile) = {}
          /\ proc[p].saved.chains # stateFile.chains

----------------------------------------------------------------------------
\* Claims about the gas monitor

\* What the last run of the monitor did: a wallet whose fetch failed kept
\* its lastBlock; every transaction reported as new is inbound, in a block
\* above the lastBlock persisted before the run, and was reported by no
\* run before.
LastMonitorRun ==
    \A k \in WalletKeys :
        /\ k \in mon.failed => mon.state[k] = mon.before[k] /\ mon.new[k] = {}
        /\ \A i \in mon.new[k] :
              /\ mon.chain[k][i].inbound
              /\ mon.chain[k][i].block > mon.before[k]
              /\ i \notin mon.seen[k]

\* C30: the persisted lastBlock of a chain never decreases and a failed
\* fetch leaves it unchanged; a run reports only inbound transactions in a
\* block above the lastBlock persisted before it; no transaction is
\* reported as new by two completed runs.
C30_GasMonitor ==
    /\ [][\A k \in WalletKeys : mon'.state[k] >= mon.state[k]]_vars
    /\ []LastMonitorRun

\* A second run reports a new transaction of a wallet it reported others
\* of before, while the fetch of the other wallet, whose lastBlock was
\* advanced earlier, fails.
C30_Witness ==
    /\ mon.runs >= 2
    /\ \E k, j \in WalletKeys :
          /\ mon.new[k] # {} /\ mon.seen[k] # {}
          /\ j \in mon.failed /\ mon.state[j] > 0
====
